---- MODULE Spec2Model ----
(***************************************************************************)
(* The mmmbop migration pipeline (package migrator): one reader, the       *)
(* processors, the writers, the checkpointer and Run/shutdown, with the    *)
(* channels and wait groups that connect them.                             *)
(*                                                                         *)
(* Go statements that touch only a goroutine's own locals are folded into  *)
(* the action of the next statement that touches shared state.  A select   *)
(* is one action per case; a case is enabled when its channel is ready.    *)
(* main() ends the process as soon as Run returns (src/main.go:53-57), so  *)
(* no goroutine takes a step once runPc = "returned".  A panic ends the    *)
(* process too.                                                            *)
(***************************************************************************)
EXTENDS Integers, Sequences, FiniteSets, TLC

\* ----------------------------------------------------------------- bounds
\* config.num_processors and config.num_writers of the run
NumProcessors == 1
NumWriters == 2
\* the largest number of bytes one decompressor Read hands to the scanner
MaxRead == 2

\* --------------------------------------------------------- program constants
\* capacity of the checkpoint job channel
CpChanCap == 10000
\* capacity of cpControlCh and of finCh
CtlChanCap == 1

Procs == 1..NumProcessors
Writers == 1..NumWriters

\* A source record: its line (Data) and its length in bytes, terminator included.
Rec(d, l) == [data |-> d, len |-> l]

\* The uncompressed sources a run may be given: newline-terminated records.
\* The second one holds the same line twice.
Sources ==
  { <<Rec(1, 2), Rec(2, 1)>>,
    <<Rec(1, 1), Rec(1, 1)>> }

\* m.last against the clock: the zero time.Time ("zero"); a save less than
\* config.checkpoint_interval ago ("recent"); a save at least that long ago ("old")
Throttled(l) == l = "recent"
\* a nil *CheckpointJob / no job held
Nil == [nil |-> TRUE]
\* the zero time.Time
Zero == -1

RECURSIVE RecEnd(_, _)
\* uncompressed offset immediately after the terminator of record i of s
RecEnd(s, i) == IF i = 0 THEN 0 ELSE RecEnd(s, i - 1) + s[i].len

Total(s) == RecEnd(s, Len(s))

\* index of the record that holds the byte at offset off (Len(s)+1 past the end)
RecAt(s, off) ==
  IF off >= Total(s) THEN Len(s) + 1
  ELSE CHOOSE i \in 1..Len(s) : RecEnd(s, i - 1) <= off /\ off < RecEnd(s, i)

\* offsets a previous, unfinished run can have left in the checkpoint file
ResumeOffsets(s) == {0, RecEnd(s, 1)}

VARIABLES
  stream,        \* the uncompressed content of source.file
  mapping,       \* number of entries of the [mapping] section of the config
  resumeOffset,  \* IndexOffset of the checkpoint as loaded by New
  cp,            \* m.cp: the in-memory checkpoint
  file,          \* the document in the checkpoint file
  last,          \* m.last, relative to time.Now()
  checksums,     \* m.checksums
  cancelled,     \* shutdownCtx is done
  pjCh, wjCh, cpjCh, errCh, finCh, cpControlCh,
  pWg, wWg, cpWg,
  rPc, zpos, scanStart, scanErr, rJob,
  pPc, pJob,
  wPc, wJob,
  cpPc, lastJob, exitState, cpFinal,
  runPc, cleanExit, runRet,
  panicked,
  \* observations of the run, read by no action
  dropped,       \* the jobs processJob has refused
  numPersists,   \* number of times the checkpoint file was written in this run
  pending,       \* CheckpointJobs queued when cpControlCh was written and not
                 \* received since (-1: cpControlCh not written yet)
  \* the checkpoint file over the starts of the process (CheckpointSpec)
  phase,         \* where the process is: not running, running, inside Save, ...
  fstate,        \* what the checkpoint file holds: nothing, a whole document, a torn one
  now,           \* time.Now()
  lastAt,        \* m.last as a time
  wroteAt,       \* when saveCheckpoint last finished a write that was not the final one
  \* the gzran Reader on its own (ReaderSpec)
  builder,       \* the gzran.Reader that built the Index by a full read
  gzr,           \* the fields of the gzran.Reader
  ret,           \* the last call made on it and what it returned
  \* the start of the process, from the config file to Run (ConfigSpec)
  toml,          \* the TOML struct: what toml.Unmarshal decoded, then defaulted
  boot,          \* how far main has come, and what Run has launched
  \* the writers against a destination (WriterSpec)
  dst,           \* what the destination database holds and whether it answers
  \* processJob step by step in several processors (DedupSpec)
  checksumsMu,   \* m.checksumsMu: 0 when unlocked, else the processor holding it
  frames,        \* per processor, where its call of processJob is
  outcomes,      \* per record data, the calls that returned a job and an error
  \* checkpoint.Load step by step over the starts of the process (CreateSpec)
  disk,          \* the checkpoint file and the index file as they are on disk
  loader         \* where Load is, and what it returned

\* What no step of a run of the pipeline changes: the configuration, and the
\* variables that only CheckpointSpec and ReaderSpec move.
gzVars == <<builder, gzr, ret>>
bootVars == <<toml, boot>>
dedupVars == <<checksumsMu, frames, outcomes>>
createVars == <<disk, loader>>
sideVars == <<dedupVars, createVars>>
lifeVars == <<phase, fstate, now, lastAt, wroteAt, gzVars, bootVars, sideVars>>
cfgVars == <<stream, mapping, resumeOffset, lifeVars, dst>>
saveVars == <<cp, file, last, numPersists>>
readerVars == <<rPc, zpos, scanStart, scanErr, rJob>>
procVars == <<pPc, pJob, checksums>>
writerVars == <<wPc, wJob>>
ckptVars == <<cpPc, lastJob, exitState, cpFinal>>
runVars == <<runPc, cleanExit, runRet>>
wgVars == <<pWg, wWg, cpWg, panicked>>
chanVars == <<pjCh, wjCh, cpjCh, errCh, finCh, cpControlCh>>

vars == <<cfgVars, saveVars, readerVars, procVars, writerVars, ckptVars,
          runVars, wgVars, chanVars, cancelled, dropped, pending>>

\* The variables of DedupSpec and CreateSpec, outside those specifications
SideIdle ==
  /\ checksumsMu = Nil /\ frames = Nil /\ outcomes = Nil
  /\ disk = Nil /\ loader = Nil

\* The process is running: Run has not returned and nothing has panicked.
Alive == runPc # "returned" /\ ~panicked

\* State when Run reaches its select: New has loaded the checkpoint, Run has
\* made the channels, added every processor to pWg and every writer to wWg and
\* launched every goroutine.
Init ==
  /\ stream \in Sources
  /\ mapping \in {0, 1}
  /\ resumeOffset \in ResumeOffsets(stream)
  /\ cp = [IndexOffset |-> resumeOffset, CompletedAt |-> FALSE]
  /\ file = cp
  /\ last = "zero"
  /\ checksums = {}
  /\ cancelled = FALSE
  /\ pjCh = <<>> /\ wjCh = <<>> /\ cpjCh = <<>>
  /\ errCh = <<>> /\ finCh = <<>> /\ cpControlCh = <<>>
  /\ pWg = NumProcessors /\ wWg = NumWriters /\ cpWg = 0
  /\ rPc = "open" /\ zpos = 0 /\ scanStart = 0 /\ scanErr = "none" /\ rJob = Nil
  /\ pPc = [i \in Procs |-> "recv"]
  /\ pJob = [i \in Procs |-> Nil]
  /\ wPc = [w \in Writers |-> "start"]
  /\ wJob = [w \in Writers |-> Nil]
  /\ cpPc = "start" /\ lastJob = Nil /\ exitState = FALSE /\ cpFinal = "none"
  /\ runPc = "select" /\ cleanExit = FALSE /\ runRet = "none"
  /\ panicked = FALSE
  /\ dropped = {}
  /\ numPersists = 0
  /\ pending = -1
  /\ phase = "running" /\ fstate = "whole"
  /\ now = 0 /\ lastAt = Zero /\ wroteAt = Zero
  /\ builder = Nil /\ gzr = Nil /\ ret = Nil
  /\ SideIdle
  /\ toml = Nil /\ boot = Nil /\ dst = Nil

\* ------------------------------------------------------------ environment
\* main's signal goroutine cancels the context on SIGINT
Cancel ==
  /\ Alive /\ ~cancelled
  /\ cancelled' = TRUE
  /\ UNCHANGED <<cfgVars, saveVars, readerVars, procVars, writerVars,
                 ckptVars, runVars, wgVars, chanVars, dropped, pending>>

\* the wall clock advances: config.checkpoint_interval has passed since m.last
Tick ==
  /\ Alive /\ last = "recent"
  /\ last' = "old"
  /\ UNCHANGED <<cp, file, numPersists>>
  /\ UNCHANGED <<cfgVars, readerVars, procVars, writerVars, ckptVars,
                 runVars, wgVars, chanVars, cancelled, dropped, pending>>

\* ----------------------------------------------------------- wait groups
\* sync.WaitGroup.Done: the counter drops by one; below zero it panics
\* ("sync: negative WaitGroup counter"), which ends the process.
WgDone(n) == IF n = 0 THEN [n |-> n, panic |-> TRUE] ELSE [n |-> n - 1, panic |-> FALSE]

\* ----------------------------------------------------------------- reader
\* gzran Reader.Seek on a reader at position pos.  Equal position is a no-op;
\* a successful forward or backward seek ends at the target.
Seek(pos, offset, whence) ==
  IF whence = "SeekEnd" THEN [position |-> pos, err |-> "ErrUnimplementedSeek"]
  ELSE LET target == IF whence = "SeekCurrent" THEN pos + offset ELSE offset IN
       IF target < 0 THEN [position |-> pos, err |-> "ErrInvalidSeek"]
       ELSE IF target = pos THEN [position |-> pos, err |-> "nil"]
       ELSE [position |-> target, err |-> "nil"]

\* bufio.Scanner with ScanLines over the bytes [scanStart, zpos) it has buffered:
\* a terminated line is a token; once the read side has ended (EOF or error)
\* the unterminated rest is a last token.
TokenReady ==
  LET r == RecAt(stream, scanStart) IN
  r <= Len(stream) /\ RecEnd(stream, r) <= zpos

\* os.Open and gzran.NewReader: both can fail; runReader then returns the error.
runReader_Open ==
  /\ Alive /\ rPc = "open"
  /\ \E ok \in BOOLEAN : rPc' = IF ok THEN "scan" ELSE "errsend"
  /\ UNCHANGED <<zpos, scanStart, scanErr, rJob>>
  /\ UNCHANGED <<cfgVars, saveVars, procVars, writerVars, ckptVars,
                 runVars, wgVars, chanVars, cancelled, dropped, pending>>

\* The Reads of the decompressor that one scanner.Scan makes when its buffer
\* holds no token.  Each Read hands over 1..MaxRead bytes, so the reads stop at
\* any position from the end of the next line up to MaxRead-1 bytes beyond it;
\* or a Read returns io.EOF at the end of the stream, or an error (I/O,
\* checksum) anywhere before the line is complete.  The scanner keeps the
\* error and stops reading.
ScanReads ==
  LET r == RecAt(stream, scanStart) IN
  { [zpos |-> z, err |-> "none"] :
      z \in { y \in (zpos + 1)..Total(stream) :
                /\ r <= Len(stream)
                /\ RecEnd(stream, r) <= y
                /\ y <= RecEnd(stream, r) - 1 + MaxRead } }
  \cup { [zpos |-> Total(stream), err |-> "eof"] : x \in {y \in {1} : r > Len(stream)} }
  \cup { [zpos |-> z, err |-> "io"] :
           z \in { y \in zpos..Total(stream) : r > Len(stream) \/ y < RecEnd(stream, r) } }

\* where scanner.Scan leaves the decompressor and its own error
ScanOutcomes ==
  IF TokenReady \/ scanErr # "none"
    THEN {[zpos |-> zpos, err |-> scanErr]}
    ELSE ScanReads

\* the token scanner.Scan returns from the bytes [scanStart, z): a terminated
\* line, or the unterminated rest once the read side has ended, or none
ScanToken(z, e) ==
  LET r == RecAt(stream, scanStart) IN
  IF r <= Len(stream) /\ RecEnd(stream, r) <= z
    THEN [ok |-> TRUE, rec |-> r, line |-> stream[r].data, next |-> RecEnd(stream, r)]
  ELSE IF e # "none" /\ scanStart < z
    THEN [ok |-> TRUE, rec |-> r, line |-> 0, next |-> z]
  ELSE [ok |-> FALSE, rec |-> r, line |-> 0, next |-> scanStart]

\* One turn of the loop `for scanner.Scan()`: Scan reads until it has a line;
\* the body polls shutdownCtx (select with default), asks the decompressor
\* where it is and builds the job.  When Scan returns false (end of stream, or
\* a read error, which runReader never looks at) runReader returns nil.
runReader_Scan ==
  /\ Alive /\ rPc = "scan"
  /\ \E o \in ScanOutcomes :
       LET tok == ScanToken(o.zpos, o.err)
           pos == Seek(o.zpos, 0, "SeekCurrent")
       IN /\ zpos' = o.zpos
          /\ scanErr' = o.err
          /\ scanStart' = tok.next
          /\ IF ~tok.ok \/ cancelled
               THEN rPc' = "finsend" /\ UNCHANGED rJob
               ELSE IF pos.err # "nil"
                      THEN rPc' = "errsend" /\ UNCHANGED rJob
                      ELSE /\ rPc' = "send"
                           /\ rJob' = [rec |-> tok.rec, Data |-> tok.line,
                                       Offset |-> pos.position]
  /\ UNCHANGED <<cfgVars, saveVars, procVars, writerVars, ckptVars,
                 runVars, wgVars, chanVars, cancelled, dropped, pending>>

\* workCh <- job: blocks while the channel is full; shutdownCtx is not consulted
runReader_Send ==
  /\ Alive /\ rPc = "send" /\ Len(pjCh) < NumProcessors
  /\ pjCh' = Append(pjCh, rJob)
  /\ rPc' = "scan" /\ rJob' = Nil
  /\ UNCHANGED <<zpos, scanStart, scanErr>>
  /\ UNCHANGED <<cfgVars, saveVars, procVars, writerVars, ckptVars,
                 runVars, wgVars, wjCh, cpjCh, errCh, finCh, cpControlCh,
                 cancelled, dropped, pending>>

\* reader goroutine of Run: errCh <- err, when runReader returned an error
Run_ReaderErr ==
  /\ Alive /\ rPc = "errsend" /\ Len(errCh) < NumProcessors
  /\ errCh' = Append(errCh, "reader")
  /\ rPc' = "finsend"
  /\ UNCHANGED <<zpos, scanStart, scanErr, rJob>>
  /\ UNCHANGED <<cfgVars, saveVars, procVars, writerVars, ckptVars,
                 runVars, wgVars, pjCh, wjCh, cpjCh, finCh, cpControlCh,
                 cancelled, dropped, pending>>

\* reader goroutine of Run: finCh <- true, whatever runReader returned
Run_ReaderFin ==
  /\ Alive /\ rPc = "finsend" /\ Len(finCh) < CtlChanCap
  /\ finCh' = Append(finCh, TRUE)
  /\ rPc' = "done"
  /\ UNCHANGED <<zpos, scanStart, scanErr, rJob>>
  /\ UNCHANGED <<cfgVars, saveVars, procVars, writerVars, ckptVars,
                 runVars, wgVars, pjCh, wjCh, cpjCh, errCh, cpControlCh,
                 cancelled, dropped, pending>>

\* -------------------------------------------------------------- processors
\* sha256 of the record's data, as the map key
Checksum(d) == <<"sha256", d>>

\* processJob under checksumsMu: a line seen before is an error, a new line is
\* recorded and becomes a WriterJob with the job's offset.
processJob(j) ==
  IF Checksum(j.Data) \in checksums
    THEN [err |-> TRUE, wj |-> Nil, checksums |-> checksums]
    ELSE [err |-> FALSE, wj |-> [rec |-> j.rec, Offset |-> j.Offset],
          checksums |-> checksums \cup {Checksum(j.Data)}]

\* select case <-shutdownCtx.Done(): runProcessor returns nil, pWg.Done() runs
runProcessor_Done(i) ==
  /\ Alive /\ pPc[i] = "recv" /\ cancelled
  /\ pPc' = [pPc EXCEPT ![i] = "done"]
  /\ pWg' = WgDone(pWg).n /\ panicked' = WgDone(pWg).panic
  /\ UNCHANGED <<pJob, checksums, wWg, cpWg>>
  /\ UNCHANGED <<cfgVars, saveVars, readerVars, writerVars, ckptVars,
                 runVars, chanVars, cancelled, dropped, pending>>

\* select case job := <-jobCh: processJob, then either the WriterJob is ready
\* to be sent or runProcessor returns the error
runProcessor_Recv(i) ==
  /\ Alive /\ pPc[i] = "recv" /\ pjCh # <<>>
  /\ LET res == processJob(Head(pjCh)) IN
       /\ pjCh' = Tail(pjCh)
       /\ checksums' = res.checksums
       /\ pJob' = [pJob EXCEPT ![i] = res.wj]
       /\ pPc' = [pPc EXCEPT ![i] = IF res.err THEN "errsend" ELSE "send"]
       /\ dropped' = IF res.err THEN dropped \cup {Head(pjCh)} ELSE dropped
  /\ UNCHANGED <<cfgVars, saveVars, readerVars, writerVars, ckptVars,
                 runVars, wgVars, wjCh, cpjCh, errCh, finCh, cpControlCh,
                 cancelled, pending>>

\* wjCh <- wj: blocks while the channel is full
runProcessor_Send(i) ==
  /\ Alive /\ pPc[i] = "send" /\ Len(wjCh) < NumWriters
  /\ wjCh' = Append(wjCh, pJob[i])
  /\ pJob' = [pJob EXCEPT ![i] = Nil]
  /\ pPc' = [pPc EXCEPT ![i] = "recv"]
  /\ UNCHANGED <<cfgVars, saveVars, readerVars, writerVars, ckptVars,
                 runVars, wgVars, pjCh, cpjCh, errCh, finCh, cpControlCh,
                 checksums, cancelled, dropped, pending>>

\* processor goroutine of Run: errCh <- err, then the deferred pWg.Done()
Run_ProcessorErr(i) ==
  /\ Alive /\ pPc[i] = "errsend" /\ Len(errCh) < NumProcessors
  /\ errCh' = Append(errCh, "processor")
  /\ pPc' = [pPc EXCEPT ![i] = "done"]
  /\ pWg' = WgDone(pWg).n /\ panicked' = WgDone(pWg).panic
  /\ UNCHANGED <<pJob, checksums, wWg, cpWg>>
  /\ UNCHANGED <<cfgVars, saveVars, readerVars, writerVars, ckptVars,
                 runVars, pjCh, wjCh, cpjCh, finCh, cpControlCh,
                 cancelled, dropped, pending>>

\* ----------------------------------------------------------------- writers
\* checkColumn never returns nil: a query error, or "tmp error return"
checkColumn(c) == FALSE

\* validateDstTables and validateDstColumns over the tables and columns the
\* mapping names (one of each per entry); tablesExist is the destination's answer
validateDestinationMappings(tablesExist) ==
  /\ \A t \in 1..mapping : tablesExist
  /\ \A c \in 1..mapping : checkColumn(c)

\* writeJob is a stub that returns nil
writeJob(j) == TRUE

\* createPGPool: pgxpool.ConnectConfig(shutdownCtx, config) fails when the
\* context is already cancelled or the destination refuses the connection
createPGPool(connects) == connects /\ ~cancelled

\* createPGPool, then validateDestinationMappings; on failure runWriter returns
\* the error before its loop
runWriter_Start(w) ==
  /\ Alive /\ wPc[w] = "start"
  /\ \E connects \in BOOLEAN, tablesExist \in BOOLEAN :
       wPc' = [wPc EXCEPT ![w] =
                 IF createPGPool(connects) /\ validateDestinationMappings(tablesExist)
                   THEN "recv" ELSE "errsend"]
  /\ UNCHANGED wJob
  /\ UNCHANGED <<cfgVars, saveVars, readerVars, procVars, ckptVars,
                 runVars, wgVars, chanVars, cancelled, dropped, pending>>

\* select case <-shutdownCtx.Done(): runWriter returns nil; the writer
\* goroutine's deferred call is pWg.Done()
runWriter_Done(w) ==
  /\ Alive /\ wPc[w] = "recv" /\ cancelled
  /\ wPc' = [wPc EXCEPT ![w] = "done"]
  /\ pWg' = WgDone(pWg).n /\ panicked' = WgDone(pWg).panic
  /\ UNCHANGED <<wJob, wWg, cpWg>>
  /\ UNCHANGED <<cfgVars, saveVars, readerVars, procVars, ckptVars,
                 runVars, chanVars, cancelled, dropped, pending>>

\* a receive that leaves the WriterJob in the channel
runWriter_RecvKeeps(w) ==
  /\ Alive /\ wPc[w] = "recv" /\ wjCh # <<>>
  /\ wjCh' = wjCh
  /\ wJob' = [wJob EXCEPT ![w] = Head(wjCh)]
  /\ wPc' = [wPc EXCEPT ![w] = IF writeJob(Head(wjCh)) THEN "ack" ELSE "errsend"]
  /\ UNCHANGED <<cfgVars, saveVars, readerVars, procVars, ckptVars,
                 runVars, wgVars, pjCh, cpjCh, errCh, finCh, cpControlCh,
                 cancelled, dropped, pending>>

\* select case job := <-writerCh: writeJob
runWriter_Recv(w) ==
  /\ Alive /\ wPc[w] = "recv" /\ wjCh # <<>>
  /\ wjCh' = Tail(wjCh)
  /\ wJob' = [wJob EXCEPT ![w] = Head(wjCh)]
  /\ wPc' = [wPc EXCEPT ![w] = IF writeJob(Head(wjCh)) THEN "ack" ELSE "errsend"]
  /\ UNCHANGED <<cfgVars, saveVars, readerVars, procVars, ckptVars,
                 runVars, wgVars, pjCh, cpjCh, errCh, finCh, cpControlCh,
                 cancelled, dropped, pending>>

\* cpChan <- &CheckpointJob{Offset: job.Offset}: WorkerID keeps its zero value
runWriter_Ack(w) ==
  /\ Alive /\ wPc[w] = "ack" /\ Len(cpjCh) < CpChanCap
  /\ cpjCh' = Append(cpjCh, [WorkerID |-> 0, Offset |-> wJob[w].Offset])
  /\ wJob' = [wJob EXCEPT ![w] = Nil]
  /\ wPc' = [wPc EXCEPT ![w] = "recv"]
  /\ UNCHANGED <<cfgVars, saveVars, readerVars, procVars, ckptVars,
                 runVars, wgVars, pjCh, wjCh, errCh, finCh, cpControlCh,
                 cancelled, dropped, pending>>

\* writer goroutine of Run: errCh <- err, then the deferred pWg.Done()
Run_WriterErr(w) ==
  /\ Alive /\ wPc[w] = "errsend" /\ Len(errCh) < NumProcessors
  /\ errCh' = Append(errCh, "writer")
  /\ wPc' = [wPc EXCEPT ![w] = "done"]
  /\ pWg' = WgDone(pWg).n /\ panicked' = WgDone(pWg).panic
  /\ UNCHANGED <<wJob, wWg, cpWg>>
  /\ UNCHANGED <<cfgVars, saveVars, readerVars, procVars, ckptVars,
                 runVars, pjCh, wjCh, cpjCh, finCh, cpControlCh,
                 cancelled, dropped, pending>>

\* ------------------------------------------------------------ checkpointer
\* Checkpoint.Save: os.WriteFile of the marshalled checkpoint; ok is whether
\* the write succeeds
Save(c, ok) == IF ok THEN c ELSE file

\* saveCheckpoint that stores the position of the reader's decompressor
\* instead of the offset of the job
saveCheckpointReaderPos(j, ce, ok) ==
  IF Throttled(last) /\ Len(ce) = 0
    THEN [cp |-> cp, file |-> file, last |-> last, wrote |-> 0, result |-> "throttled"]
  ELSE IF j = Nil
    THEN [cp |-> cp, file |-> file, last |-> last, wrote |-> 0, result |-> "nil"]
  ELSE LET c == [IndexOffset |-> zpos,
                 CompletedAt |-> IF Len(ce) > 0 /\ ce[1] THEN TRUE ELSE cp.CompletedAt]
       IN IF ok
            THEN [cp |-> c, file |-> Save(c, ok), last |-> "recent", wrote |-> 1,
                  result |-> "saved"]
            ELSE [cp |-> c, file |-> Save(c, ok), last |-> last, wrote |-> 0,
                  result |-> "failed"]

\* saveCheckpoint that notes the time of the save before it knows whether the
\* write succeeded
saveCheckpointStampsFirst(j, ce, ok) ==
  IF Throttled(last) /\ Len(ce) = 0
    THEN [cp |-> cp, file |-> file, last |-> last, wrote |-> 0, result |-> "throttled"]
  ELSE IF j = Nil
    THEN [cp |-> cp, file |-> file, last |-> last, wrote |-> 0, result |-> "nil"]
  ELSE LET c == [IndexOffset |-> j.Offset,
                 CompletedAt |-> IF Len(ce) > 0 /\ ce[1] THEN TRUE ELSE cp.CompletedAt]
       IN [cp |-> c, file |-> Save(c, ok), last |-> "recent",
           wrote |-> IF ok THEN 1 ELSE 0,
           result |-> IF ok THEN "saved" ELSE "failed"]

\* saveCheckpoint(cp, cleanExit...): j is the job or Nil, ce the variadic
\* cleanExit arguments (<<>> or <<b>>), ok whether the file write succeeds.
\* Yields the new m.cp, file, m.last, and which return was taken.
saveCheckpoint(j, ce, ok) ==
  IF Throttled(last) /\ Len(ce) = 0
    THEN [cp |-> cp, file |-> file, last |-> last, wrote |-> 0, result |-> "throttled"]
  ELSE IF j = Nil
    THEN [cp |-> cp, file |-> file, last |-> last, wrote |-> 0, result |-> "nil"]
  ELSE LET c == [IndexOffset |-> j.Offset,
                 CompletedAt |-> IF Len(ce) > 0 /\ ce[1] THEN TRUE ELSE cp.CompletedAt]
       IN IF ok
            THEN [cp |-> c, file |-> Save(c, ok), last |-> "recent", wrote |-> 1,
                  result |-> "saved"]
            ELSE [cp |-> c, file |-> Save(c, ok), last |-> last, wrote |-> 0,
                  result |-> "failed"]

\* checkpointer goroutine of Run: cpWg.Add(1)
runCheckpointer_Start ==
  /\ Alive /\ cpPc = "start"
  /\ cpWg' = cpWg + 1
  /\ cpPc' = "loop"
  /\ UNCHANGED <<lastJob, exitState, cpFinal, pWg, wWg, panicked>>
  /\ UNCHANGED <<cfgVars, saveVars, readerVars, procVars, writerVars,
                 runVars, chanVars, cancelled, dropped, pending>>

\* select case cp := <-cpChan: saveCheckpoint(cp); an error is only logged
runCheckpointer_Event ==
  /\ Alive /\ cpPc = "loop" /\ cpjCh # <<>>
  /\ \E ok \in BOOLEAN :
       LET res == saveCheckpoint(Head(cpjCh), <<>>, ok) IN
         /\ cp' = res.cp /\ file' = res.file /\ last' = res.last
         /\ numPersists' = numPersists + res.wrote
  /\ cpjCh' = Tail(cpjCh)
  /\ lastJob' = Head(cpjCh)
  /\ pending' = IF pending > 0 THEN pending - 1 ELSE pending
  /\ UNCHANGED <<cpPc, exitState, cpFinal>>
  /\ UNCHANGED <<cfgVars, readerVars, procVars, writerVars,
                 runVars, wgVars, pjCh, wjCh, errCh, finCh, cpControlCh,
                 cancelled, dropped>>

\* select case state := <-cpControlCh: break MAIN, then
\* saveCheckpoint(lastJob, exitState); nil is returned and cpWg.Done() runs,
\* or the error goes to errCh first
runCheckpointer_Control ==
  /\ Alive /\ cpPc = "loop" /\ cpControlCh # <<>>
  /\ cpControlCh' = Tail(cpControlCh)
  /\ exitState' = Head(cpControlCh)
  /\ \E ok \in BOOLEAN :
       LET res == saveCheckpoint(lastJob, <<Head(cpControlCh)>>, ok) IN
         /\ cp' = res.cp /\ file' = res.file /\ last' = res.last
         /\ numPersists' = numPersists + res.wrote
         /\ cpFinal' = res.result
         /\ IF res.result = "failed"
              THEN cpPc' = "errsend" /\ UNCHANGED <<cpWg, panicked>>
              ELSE /\ cpPc' = "done"
                   /\ cpWg' = WgDone(cpWg).n /\ panicked' = WgDone(cpWg).panic
  /\ UNCHANGED <<lastJob, pWg, wWg>>
  /\ UNCHANGED <<cfgVars, readerVars, procVars, writerVars,
                 runVars, pjCh, wjCh, cpjCh, errCh, finCh,
                 cancelled, dropped, pending>>

\* checkpointer goroutine of Run: errCh <- err, then the deferred cpWg.Done()
Run_CheckpointerErr ==
  /\ Alive /\ cpPc = "errsend" /\ Len(errCh) < NumProcessors
  /\ errCh' = Append(errCh, "checkpointer")
  /\ cpPc' = "done"
  /\ cpWg' = WgDone(cpWg).n /\ panicked' = WgDone(cpWg).panic
  /\ UNCHANGED <<lastJob, exitState, cpFinal, pWg, wWg>>
  /\ UNCHANGED <<cfgVars, saveVars, readerVars, procVars, writerVars,
                 runVars, pjCh, wjCh, cpjCh, finCh, cpControlCh,
                 cancelled, dropped, pending>>

\* ------------------------------------------------------- Run and shutdown
\* The first timeout() of shutdown starts with shutdownCancel(); then it waits
\* on the wait group shutdown was handed as wWg, which Run passes pWg for.
shutdown(clean) ==
  /\ runPc' = "stage1"
  /\ cleanExit' = clean
  /\ cancelled' = TRUE

\* Run: select case <-shutdownCtx.Done()
Run_CtxDone ==
  /\ Alive /\ runPc = "select" /\ cancelled
  /\ shutdown(FALSE)
  /\ UNCHANGED runRet
  /\ UNCHANGED <<cfgVars, saveVars, readerVars, procVars, writerVars,
                 ckptVars, wgVars, chanVars, dropped, pending>>

\* Run: select case <-finCh
Run_Fin ==
  /\ Alive /\ runPc = "select" /\ finCh # <<>>
  /\ finCh' = Tail(finCh)
  /\ shutdown(TRUE)
  /\ UNCHANGED runRet
  /\ UNCHANGED <<cfgVars, saveVars, readerVars, procVars, writerVars,
                 ckptVars, wgVars, pjCh, wjCh, cpjCh, errCh, cpControlCh,
                 dropped, pending>>

\* Run: select case err := <-errCh: every value sent on errCh is non-nil, so
\* Run returns the error at once
Run_Err ==
  /\ Alive /\ runPc = "select" /\ errCh # <<>>
  /\ errCh' = Tail(errCh)
  /\ runPc' = "returned"
  /\ runRet' = "received error"
  /\ UNCHANGED cleanExit
  /\ UNCHANGED <<cfgVars, saveVars, readerVars, procVars, writerVars,
                 ckptVars, wgVars, pjCh, wjCh, cpjCh, finCh, cpControlCh,
                 cancelled, dropped, pending>>

\* shutdown: wWg.Wait() returns within the timeout; the second timeout()
\* starts with cpControlCh <- cleanExit
shutdown_WorkersStopped ==
  /\ Alive /\ runPc = "stage1" /\ pWg = 0
  /\ runPc' = "stage2"
  /\ cpControlCh' = Append(cpControlCh, cleanExit)
  /\ pending' = Len(cpjCh)
  /\ UNCHANGED <<cleanExit, runRet>>
  /\ UNCHANGED <<cfgVars, saveVars, readerVars, procVars, writerVars,
                 ckptVars, wgVars, pjCh, wjCh, cpjCh, errCh, finCh,
                 cancelled, dropped>>

\* shutdown: the first timeout() expires before wWg.Wait() returns
shutdown_WorkersTimeout ==
  /\ Alive /\ runPc = "stage1"
  /\ runPc' = "returned"
  /\ runRet' = "timed out waiting for workers to exit"
  /\ UNCHANGED cleanExit
  /\ UNCHANGED <<cfgVars, saveVars, readerVars, procVars, writerVars,
                 ckptVars, wgVars, chanVars, cancelled, dropped, pending>>

\* shutdown: cpWg.Wait() returns within the timeout; shutdown returns nil
shutdown_CheckpointerStopped ==
  /\ Alive /\ runPc = "stage2" /\ cpWg = 0
  /\ runPc' = "returned"
  /\ runRet' = "nil"
  /\ UNCHANGED cleanExit
  /\ UNCHANGED <<cfgVars, saveVars, readerVars, procVars, writerVars,
                 ckptVars, wgVars, chanVars, cancelled, dropped, pending>>

\* shutdown: the second timeout() expires before cpWg.Wait() returns
shutdown_CheckpointerTimeout ==
  /\ Alive /\ runPc = "stage2"
  /\ runPc' = "returned"
  /\ runRet' = "timed out waiting for checkpointer to exit"
  /\ UNCHANGED cleanExit
  /\ UNCHANGED <<cfgVars, saveVars, readerVars, procVars, writerVars,
                 ckptVars, wgVars, chanVars, cancelled, dropped, pending>>

Next ==
  \/ Cancel
  \/ Tick
  \/ runReader_Open
  \/ runReader_Scan
  \/ runReader_Send
  \/ Run_ReaderErr
  \/ Run_ReaderFin
  \/ \E i \in Procs :
       \/ runProcessor_Done(i)
       \/ runProcessor_Recv(i)
       \/ runProcessor_Send(i)
       \/ Run_ProcessorErr(i)
  \/ \E w \in Writers :
       \/ runWriter_Start(w)
       \/ runWriter_Done(w)
       \/ runWriter_Recv(w)
       \/ runWriter_Ack(w)
       \/ Run_WriterErr(w)
  \/ runCheckpointer_Start
  \/ runCheckpointer_Event
  \/ runCheckpointer_Control
  \/ Run_CheckpointerErr
  \/ Run_CtxDone
  \/ Run_Fin
  \/ Run_Err
  \/ shutdown_WorkersStopped
  \/ shutdown_WorkersTimeout
  \/ shutdown_CheckpointerStopped
  \/ shutdown_CheckpointerTimeout

Spec == Init /\ [][Next]_vars

\* =============================================================== properties
Range(q) == {q[k] : k \in 1..Len(q)}

\* jobs the reader has sent that are still on their way to a CheckpointJob
InFlight ==
  Range(pjCh) \cup {pJob[i] : i \in {p \in Procs : pPc[p] = "send"}}
  \cup Range(wjCh) \cup {wJob[w] : w \in {x \in Writers : wPc[x] = "ack"}}

\* offsets of the jobs sent by the reader for which no CheckpointJob was sent
UnackedOffsets == {j.Offset : j \in InFlight \cup dropped}

\* cpControlCh has been written
SignalSent == pending # -1

\* the final saveCheckpoint of runCheckpointer has returned
FinalDone == cpFinal # "none"

\* C1: at every write of the checkpoint file, every job the reader has sent
\* with an offset at or below the written index_offset has already produced a
\* CheckpointJob.
C1_PersistsOnlyAcknowledgedPrefix ==
  [][numPersists' > numPersists =>
       \A o \in UnackedOffsets' : o > file'.IndexOffset]_vars

\* C2: within a run, each write of the checkpoint file carries an index_offset
\* at least as large as the one written before it.
C2_IndexOffsetNeverDecreases ==
  [][(numPersists' > numPersists /\ numPersists > 0) =>
       file'.IndexOffset >= file.IndexOffset]_vars

\* C3: completed_at is in the checkpoint file only if the reader reached the
\* end of the stream; a run that ends by cancellation or by an error never
\* writes it.
C3_CompletedOnlyAfterEndOfStream ==
  file.CompletedAt => scanErr = "eof"

\* C4: when completed_at is in the checkpoint file, no job the reader sent is
\* still waiting in a channel or held by a processor or a writer.
C4_CompletedOnlyWhenDrained ==
  file.CompletedAt => InFlight = {}

\* C5: on a run resumed at index_offset k the decompressor is at k or beyond
\* when the first job is sent, and no record that ends at or before k is sent.
C5_ResumesAtIndexOffset ==
  \A j \in Range(pjCh) :
    zpos >= resumeOffset /\ RecEnd(stream, j.rec) > resumeOffset

\* C6: the offset a job carries is the uncompressed offset right after its
\* record's terminator.
C6_OffsetIsEndOfRecord ==
  \A j \in Range(pjCh) : j.Data # 0 => j.Offset = RecEnd(stream, j.rec)

\* C7: when Run ends because a stage reported an error, the context has been
\* cancelled, the checkpointer has been sent its signal and the final
\* checkpoint has been written.
C7_ErrorTriggersShutdown ==
  runRet = "received error" => cancelled /\ SignalSent /\ cpFinal = "saved"

\* C8: once the checkpointer has taken the terminal signal, its final
\* saveCheckpoint has written the checkpoint file (or tried to), whether or
\* not any CheckpointJob was received.
C8_FinalPersistUnconditional ==
  FinalDone => cpFinal \in {"saved", "failed"}

\* C9: every CheckpointJob that was queued when the terminal signal was sent
\* has been received by the checkpointer before its final saveCheckpoint.
C9_DrainsBeforeFinalPersist ==
  FinalDone => pending = 0

\* C10: the terminal signal is sent only after the reader, every processor
\* and every writer have exited.
C10_SignalAfterWorkersExit ==
  SignalSent =>
    /\ rPc = "done"
    /\ \A i \in Procs : pPc[i] = "done"
    /\ \A w \in Writers : wPc[w] = "done"

\* C11: when shutdown's wait for the workers times out, the terminal signal is
\* still sent to the checkpointer and its final saveCheckpoint still runs
\* before Run returns the timeout error.
C11_WorkersTimeoutStillSignals ==
  runRet = "timed out waiting for workers to exit" => SignalSent /\ FinalDone

\* the reader is in `workCh <- job` with the channel full and every processor gone
ReaderBlockedForever ==
  rPc = "send" /\ Len(pjCh) = NumProcessors /\ \A i \in Procs : pPc[i] = "done"

\* processor i is in `wjCh <- wj` with the channel full and every writer gone
ProcessorBlockedForever(i) ==
  pPc[i] = "send" /\ Len(wjCh) = NumWriters /\ \A w \in Writers : wPc[w] = "done"

\* C12: once the context is cancelled the reader and every processor can still
\* reach their exit: none of them sits in a send to a full channel whose
\* receivers have all exited, which no later step could ever complete.
C12_CancelledWorkersCanExit ==
  (cancelled /\ Alive) =>
    /\ ~ReaderBlockedForever
    /\ \A i \in Procs : ~ProcessorBlockedForever(i)

\* the select of runProcessor has a ready case for processor i
ProcessorSelectReady(i) ==
  ENABLED (runProcessor_Recv(i) \/ runProcessor_Done(i))

\* C13: once the reader has read to the end of the stream and has signalled
\* finCh, the job channel is closed: a processor waiting on the empty channel
\* (the context not cancelled) has its receive ready and sees the close.
C13_JobChannelClosedAtEndOfStream ==
  (scanErr = "eof" /\ rPc = "done" /\ ~cancelled /\ Alive /\ pjCh = <<>>) =>
    \A i \in Procs : pPc[i] = "recv" => ProcessorSelectReady(i)

\* C14: a job whose checksum is already in m.checksums is dropped and the
\* processor goes on with the next job: runProcessor does not return an error
\* for it, so no processor error is on its way to Run through errCh.
C14_DuplicateIsSkipped ==
  dropped # {} =>
    /\ \A i \in Procs : pPc[i] # "errsend"
    /\ "processor" \notin Range(errCh)

\* the id Run hands to runWriter for writer w: the loop index, from 0
WriterID(w) == w - 1

\* C15: when a writer has written a job it puts exactly one CheckpointJob on
\* the checkpoint channel, carrying the job's offset unchanged and the id of
\* that writer.
C15_AckCarriesOffsetAndWriter ==
  [][\A w \in Writers :
       (wPc[w] = "ack" /\ wPc'[w] = "recv") =>
         /\ Len(cpjCh') = Len(cpjCh) + 1
         /\ cpjCh'[Len(cpjCh')] =
              [WorkerID |-> WriterID(w), Offset |-> wJob[w].Offset]]_vars

\* ========================================================= CheckpointSpec
\* The checkpoint file over the starts of the process: New loads or creates
\* it, the checkpointer saves it as jobs arrive against a clock that counts
\* whole ticks, Checkpoint.Save writes it in the two steps of os.WriteFile
\* (truncate, then write), and the process can be killed between any two
\* steps.  The jobs the checkpointer receives are inputs here.

\* config.checkpoint_interval, in ticks
CheckpointInterval == 2
\* the last tick of the clock
MaxNow == 4
\* the largest offset a CheckpointJob carries
MaxOffset == 2

CheckpointJobs == {[WorkerID |-> 0, Offset |-> o] : o \in 1..MaxOffset}

\* a checkpoint document as create and saveCheckpoint marshal it
Documents ==
  {[IndexOffset |-> o, CompletedAt |-> c] : o \in 0..MaxOffset, c \in BOOLEAN}

\* Age with the interval left out of the comparison
AgeWithoutInterval(t, n) ==
  IF t = Zero THEN "zero"
  ELSE IF t > n THEN "recent"
  ELSE "old"

\* m.last against the clock n, as saveCheckpoint tests it:
\* !m.last.IsZero() && m.last.Add(CheckpointInterval).After(time.Now())
Age(t, n) ==
  IF t = Zero THEN "zero"
  ELSE IF t + CheckpointInterval > n THEN "recent"
  ELSE "old"

\* load without the test of CompletedAt
loadCompleted(fs, f, indexOk) ==
  IF fs # "whole" THEN [err |-> "unable to unmarshal checkpoint file", cp |-> Nil]
  ELSE IF ~indexOk THEN [err |-> "unable to open checkpoint index file", cp |-> Nil]
  ELSE [err |-> "nil", cp |-> f]

\* load: the file must unmarshal, must not be completed, and its index file
\* must open and parse
load(fs, f, indexOk) ==
  IF fs # "whole" THEN [err |-> "unable to unmarshal checkpoint file", cp |-> Nil]
  ELSE IF f.CompletedAt THEN [err |-> "migration already completed", cp |-> Nil]
  ELSE IF ~indexOk THEN [err |-> "unable to open checkpoint index file", cp |-> Nil]
  ELSE [err |-> "nil", cp |-> f]

\* create: the index is generated and written, then the checkpoint file is
\* written with os.WriteFile; wrote is what that leaves in the file
create(indexOk, writeOk) ==
  IF ~indexOk THEN [err |-> "unable to generate gzip index", cp |-> Nil, wrote |-> "absent"]
  ELSE IF ~writeOk THEN [err |-> "unable to write checkpoint file", cp |-> Nil, wrote |-> "partial"]
  ELSE [err |-> "nil", cp |-> [IndexOffset |-> 0, CompletedAt |-> FALSE], wrote |-> "whole"]

\* Load: create when the file does not exist, load otherwise
Load(fs, f, indexOk, writeOk) ==
  IF fs = "absent" THEN create(indexOk, writeOk)
  ELSE [err |-> load(fs, f, indexOk).err, cp |-> load(fs, f, indexOk).cp, wrote |-> fs]

pipeVars == <<readerVars, procVars, writerVars, runVars, wgVars, chanVars,
              cancelled, dropped, pending, stream, mapping, gzVars, bootVars, dst,
              sideVars>>

CheckpointInit ==
  /\ stream = <<Rec(1, 2), Rec(2, 1)>> /\ mapping = 0
  /\ fstate \in {"absent", "whole"}
  /\ file \in Documents
  /\ fstate = "absent" => file = [IndexOffset |-> 0, CompletedAt |-> FALSE]
  /\ cp = file /\ resumeOffset = file.IndexOffset
  /\ last = "zero" /\ checksums = {} /\ cancelled = FALSE
  /\ pjCh = <<>> /\ wjCh = <<>> /\ cpjCh = <<>>
  /\ errCh = <<>> /\ finCh = <<>> /\ cpControlCh = <<>>
  /\ pWg = 0 /\ wWg = 0 /\ cpWg = 0
  /\ rPc = "open" /\ zpos = 0 /\ scanStart = 0 /\ scanErr = "none" /\ rJob = Nil
  /\ pPc = [i \in Procs |-> "recv"] /\ pJob = [i \in Procs |-> Nil]
  /\ wPc = [w \in Writers |-> "start"] /\ wJob = [w \in Writers |-> Nil]
  /\ cpPc = "start" /\ lastJob = Nil /\ exitState = FALSE /\ cpFinal = "none"
  /\ runPc = "select" /\ cleanExit = FALSE /\ runRet = "none"
  /\ panicked = FALSE /\ dropped = {} /\ numPersists = 0 /\ pending = -1
  /\ phase = "down" /\ now = 0 /\ lastAt = Zero /\ wroteAt = Zero
  /\ builder = Nil /\ gzr = Nil /\ ret = Nil
  /\ SideIdle
  /\ toml = Nil /\ boot = Nil /\ dst = Nil

\* main: migrator.New calls checkpoint.Load; on an error the process exits,
\* otherwise the run starts with m.last the zero time
New ==
  /\ phase \in {"down", "failed", "exited"}
  /\ \E indexOk \in BOOLEAN, writeOk \in BOOLEAN :
       LET res == Load(fstate, file, indexOk, writeOk) IN
         /\ fstate' = res.wrote
         /\ IF res.err = "nil"
              THEN /\ phase' = "running"
                   /\ cp' = res.cp /\ file' = res.cp
                   /\ resumeOffset' = res.cp.IndexOffset
              ELSE /\ phase' = "failed"
                   /\ UNCHANGED <<cp, file, resumeOffset>>
  /\ last' = "zero" /\ lastAt' = Zero /\ wroteAt' = Zero
  /\ lastJob' = Nil /\ cpFinal' = "none" /\ exitState' = FALSE /\ numPersists' = 0
  /\ UNCHANGED <<cpPc, now, pipeVars>>

\* a tick of the wall clock
Clock ==
  /\ phase \in {"running", "saving", "finalsaving"} /\ now < MaxNow
  /\ now' = now + 1
  /\ last' = Age(lastAt, now')
  /\ UNCHANGED <<cp, file, numPersists, resumeOffset, phase, fstate, lastAt,
                 wroteAt, ckptVars, pipeVars>>

\* runCheckpointer, case cp := <-cpChan: saveCheckpoint(cp) up to the point
\* where Save has opened the file, which truncates it
Checkpointer_Event ==
  /\ phase = "running"
  /\ \E j \in CheckpointJobs :
       LET res == saveCheckpoint(j, <<>>, TRUE) IN
         /\ lastJob' = j
         /\ IF res.result = "saved"
              THEN cp' = res.cp /\ fstate' = "empty" /\ phase' = "saving"
              ELSE UNCHANGED <<cp, fstate, phase>>
  /\ UNCHANGED <<file, last, numPersists, resumeOffset, now, lastAt, wroteAt,
                 cpPc, exitState, cpFinal, pipeVars>>

\* runCheckpointer, case state := <-cpControlCh: the final
\* saveCheckpoint(lastJob, exitState) up to the truncation by Save; with no job
\* received it returns at once and the process ends
Checkpointer_Control ==
  /\ phase = "running"
  /\ \E clean \in BOOLEAN :
       LET res == saveCheckpoint(lastJob, <<clean>>, TRUE) IN
         /\ exitState' = clean
         /\ IF res.result = "saved"
              THEN /\ cp' = res.cp /\ fstate' = "empty" /\ phase' = "finalsaving"
                   /\ UNCHANGED cpFinal
              ELSE /\ phase' = "exited" /\ cpFinal' = res.result
                   /\ UNCHANGED <<cp, fstate>>
  /\ UNCHANGED <<file, last, numPersists, resumeOffset, now, lastAt, wroteAt,
                 cpPc, lastJob, pipeVars>>

\* Checkpoint.Save: os.WriteFile writes the document and returns; then
\* saveCheckpoint sets m.last = time.Now().  A failed write leaves part of the
\* document and m.last as it was.
Save_Write ==
  /\ phase \in {"saving", "finalsaving"}
  /\ \E ok \in BOOLEAN :
       /\ file' = Save(cp, ok)
       /\ fstate' = IF ok THEN "whole" ELSE "partial"
       /\ numPersists' = IF ok THEN numPersists + 1 ELSE numPersists
       /\ lastAt' = IF ok THEN now ELSE lastAt
       /\ last' = Age(lastAt', now)
       /\ wroteAt' = IF ok /\ phase = "saving" THEN now ELSE wroteAt
       /\ IF phase = "saving"
            THEN phase' = "running" /\ UNCHANGED cpFinal
            ELSE phase' = "exited" /\ cpFinal' = IF ok THEN "saved" ELSE "failed"
  /\ UNCHANGED <<cp, resumeOffset, now, cpPc, lastJob, exitState, pipeVars>>

\* the process is killed (SIGKILL, power loss): nothing more is written
Kill ==
  /\ phase \in {"running", "saving", "finalsaving"}
  /\ phase' = "down"
  /\ UNCHANGED <<cp, file, last, numPersists, resumeOffset, fstate, now, lastAt,
                 wroteAt, ckptVars, pipeVars>>

CheckpointNext ==
  \/ New
  \/ Clock
  \/ Checkpointer_Event
  \/ Checkpointer_Control
  \/ Save_Write
  \/ Kill

CheckpointSpec == CheckpointInit /\ [][CheckpointNext]_vars

\* C16: in a run, a write of the file by saveCheckpoint that is not the final
\* one starts at least checkpoint_interval after the previous such write
\* finished; while less than checkpoint_interval has passed since m.last, a
\* job that arrives starts no write.
C16_PersistsAtLeastIntervalApart ==
  [][/\ (phase = "running" /\ phase' = "saving" /\ wroteAt # Zero) =>
          now - wroteAt >= CheckpointInterval
     /\ (phase = "running" /\ lastAt # Zero /\ now < lastAt + CheckpointInterval) =>
          phase' # "saving"]_vars

\* C16 witness: a second write that is not the final one is under way in a run
C16_SecondPersistStarted ==
  phase = "saving" /\ wroteAt # Zero /\ numPersists > 0

\* C17: whenever the process is not running because it was killed, the
\* checkpoint file holds a whole document (or was never created): never an
\* empty or a partly written one.
C17_FileWholeAfterKill ==
  phase = "down" => fstate \in {"absent", "whole"}

\* C18: a start of the process that finds a completed checkpoint in the file
\* fails in New: no run starts from it and the file is left as it is.
C18_CompletedCheckpointRefused ==
  [][(phase \in {"down", "failed", "exited"} /\ fstate = "whole" /\ file.CompletedAt) =>
       (phase' = "failed" /\ UNCHANGED <<file, fstate, cp>>)]_vars

\* C18 witness: a run ended cleanly and wrote completed_at, and the next start
\* of the process has failed on that file
C18_CompletedLoadFailed ==
  phase = "failed" /\ fstate = "whole" /\ file.CompletedAt /\ file.IndexOffset > resumeOffset

\* ============================================================= ReaderSpec
\* The gzran Reader on its own: Read and Seek over a source of one or more
\* intact gzip members, each of GzTotal uncompressed bytes (a byte's value is
\* the offset just after it), with the Index the Reader builds as it reads or
\* one that was built by a full read, written out, loaded and assigned to a
\* new Reader.

\* uncompressed size of a gzip member of the source
GzTotal == 4
\* the most gzip members the source is made of
MaxMembers == 2
\* indexInterval of the Reader
IndexInterval == 1
\* the most bytes one Read of the flate decompressor returns
MaxChunk == 2
\* the fixed part of the gzip header that readHeader consumes
HeaderLen == 10
\* the trailer of a member, CRC-32 and ISIZE, that Read consumes
TrailerLen == 8

\* the bytes at uncompressed offsets [from, from + n)
Bytes(from, n) == [i \in 1..n |-> from + i]

\* how much compressed input the decompressor has consumed when it has
\* produced u bytes: the header, then one byte of input for two of output
CompOf(u) == HeaderLen + (u + 1) \div 2

Min3(a, b, c) ==
  LET m == IF a < b THEN a ELSE b IN IF m < c THEN m ELSE c

\* Point.  DecompressorState is modelled by where in the uncompressed stream
\* the saved decompressor resumes.
Point(c, u, st) ==
  [CompressedOffset |-> c, UncompressedOffset |-> u, DecompressorState |-> st]

\* the length of a source file of m members
FileLen(m) == m * (CompOf(GzTotal) + TrailerLen)

\* NewReaderInterval on a source r, given as the number of its members: the
\* Index holds the point of the beginning of the file
NewReader(r) ==
  [r |-> r,
   Index |-> <<Point(0, 0, 0)>>, pos |-> 0, furthestRead |-> 0, err |-> "nil",
   digest |-> <<>>, size |-> 0, checkedDigest |-> FALSE,
   dec |-> 0,           \* where the decompressor is in the uncompressed stream
   past |-> 0,          \* what bufR has delivered beyond the deflate stream
   panic |-> FALSE]

\* io.ReadFull(z.bufR, z.buf[:8]) fails: fewer than 8 bytes are left in the file
atEnd(z) == CompOf(GzTotal) + z.past + TrailerLen > FileLen(z.r)

\* Index.lastUncompressedOffset
lastUncompressedOffset(idx) ==
  IF Len(idx) = 0 THEN 0 ELSE idx[Len(idx)].UncompressedOffset

\* Index.closestPointBefore: sort.Search for the first point beyond offset
closestPointBefore(idx, offset) ==
  LET beyond == {j \in 1..Len(idx) : idx[j].UncompressedOffset > offset}
      j == IF beyond = {} THEN Len(idx) + 1
           ELSE CHOOSE m \in beyond : \A o \in beyond : m <= o
  IN IF j = 1 THEN Point(0, 0, 0) ELSE idx[j - 1]

\* Reader.addPointToIndex
addPointToIndex(z) ==
  [z EXCEPT !.Index = Append(z.Index, Point(CompOf(z.dec), z.pos, z.dec))]

\* Reader.Read, the bytes added to the digest and counted in size when n
\* more bytes take the position past furthestRead: all n of them
newDataWhole(z, n) == Bytes(z.dec, n)

\* Reader.Read: newData := p[startIdx:n], the bytes of this read that lie
\* beyond furthestRead
newData(z, n) ==
  Bytes(z.dec + (z.furthestRead - z.pos), n - (z.furthestRead - z.pos))

\* Reader.Read into a buffer of k bytes.  The decompressor returns up to
\* chunk bytes, and io.EOF with the last of them when ewd, with a later empty
\* read otherwise; with chunk 0 the read of the file fails and it returns no
\* bytes and the error.  Yields the Reader, the count, the error and the bytes.
Reader_Read(z, k, chunk, ewd) ==
  IF z.err # "nil" THEN [z |-> z, n |-> 0, err |-> z.err, data |-> <<>>]
  ELSE
    LET n == Min3(k, chunk, GzTotal - z.dec)
        derr == IF chunk = 0 THEN "ErrIO"
                ELSE IF z.dec + n = GzTotal /\ (n = 0 \/ ewd) THEN "EOF" ELSE "nil"
        startIdx == z.furthestRead - z.pos
        fresh == z.pos + n > z.furthestRead
    IN IF fresh /\ (startIdx < 0 \/ startIdx > n)
         THEN \* p[startIdx:n] is out of range: the runtime panics
              [z |-> [z EXCEPT !.panic = TRUE, !.pos = z.pos + n, !.dec = z.dec + n],
               n |-> 0, err |-> "panic", data |-> <<>>]
         ELSE
           LET z1 == [z EXCEPT
                        !.pos = z.pos + n, !.dec = z.dec + n, !.err = derr,
                        !.digest = IF fresh THEN z.digest \o newData(z, n) ELSE z.digest,
                        !.size = IF fresh THEN z.size + Len(newData(z, n)) ELSE z.size,
                        !.furthestRead = IF fresh THEN z.pos + n ELSE z.furthestRead]
               z2 == IF z1.pos >= lastUncompressedOffset(z1.Index) + IndexInterval
                       THEN addPointToIndex(z1) ELSE z1
               out == Bytes(z.dec, n)
           IN IF derr # "EOF" THEN [z |-> z2, n |-> n, err |-> derr, data |-> out]
              ELSE IF atEnd(z2)
                THEN \* io.ReadFull of the trailer at the end of the file
                     [z |-> [z2 EXCEPT !.err = "ErrUnexpectedEOF"], n |-> n,
                      err |-> "ErrUnexpectedEOF", data |-> out]
              ELSE IF z2.checkedDigest
                THEN [z |-> [z2 EXCEPT !.past = z2.past + TrailerLen],
                      n |-> n, err |-> "EOF", data |-> out]
              ELSE IF z2.digest # Bytes(0, GzTotal) \/ z2.size # GzTotal
                THEN [z |-> [z2 EXCEPT !.past = z2.past + TrailerLen, !.err = "ErrChecksum"],
                      n |-> n, err |-> "ErrChecksum", data |-> out]
              ELSE [z |-> [z2 EXCEPT !.past = z2.past + TrailerLen, !.checkedDigest = TRUE,
                                     !.digest = <<>>, !.size = 0],
                    n |-> n, err |-> "EOF", data |-> out]

RECURSIVE CopyN(_, _, _, _)
\* io.CopyN(ioutil.Discard, z, n): Reads through an io.LimitedReader until n
\* bytes are written; nil when all n were, io.EOF when the Reader ended early;
\* n in the result is the number of bytes written
CopyN(z, n, chunk, ewd) ==
  IF n = 0 THEN [z |-> z, n |-> 0, err |-> "nil"]
  ELSE CHOOSE res \in
         {IF r.z.panic THEN [z |-> r.z, n |-> 0, err |-> "panic"]
          ELSE IF r.n = n THEN [z |-> r.z, n |-> r.n, err |-> "nil"]
          ELSE IF r.err = "nil"
            THEN [CopyN(r.z, n - r.n, chunk, ewd) EXCEPT !.n = @ + r.n]
          ELSE [z |-> r.z, n |-> r.n, err |-> r.err] :
            r \in {Reader_Read(z, n, chunk, ewd)}} : TRUE

\* Reader.seekToPoint: the file is positioned at the point's compressed
\* offset, and the header is read again or the decompressor state restored
seekToPoint(z, p) ==
  [z |-> [z EXCEPT !.err = "nil", !.past = 0,
                   !.dec = IF p.UncompressedOffset = 0 THEN 0 ELSE p.DecompressorState,
                   !.pos = p.UncompressedOffset],
   position |-> p.UncompressedOffset, err |-> "nil"]

\* Reader.seekForward without the test of the distance to the point: the
\* closest point before the offset is always restored
seekForwardAlwaysRestores(z, offset, chunk, ewd) ==
  LET seekPoint == closestPointBefore(z.Index, offset)
      z1 == seekToPoint(z, seekPoint).z
      c == CopyN(z1, offset - z1.pos, chunk, ewd)
  IN [z |-> IF c.z.panic THEN c.z ELSE [c.z EXCEPT !.err = c.err],
      position |-> c.z.pos, err |-> c.err, point |-> seekPoint, n |-> c.n]

\* Reader.seekForward; point in the result is the Point seekForward gave to
\* seekToPoint (Nil when it gave none) and n the number of bytes io.CopyN
\* discarded
seekForward(z, offset, chunk, ewd) ==
  LET seekPoint == closestPointBefore(z.Index, offset)
      far == seekPoint.UncompressedOffset > z.pos + IndexInterval
      z1 == IF far THEN seekToPoint(z, seekPoint).z ELSE z
      c == CopyN(z1, offset - z1.pos, chunk, ewd)
  IN [z |-> IF c.z.panic THEN c.z ELSE [c.z EXCEPT !.err = c.err],
      position |-> c.z.pos, err |-> c.err,
      point |-> IF far THEN seekPoint ELSE Nil, n |-> c.n]

\* Reader.seekBackward: after seekToPoint the position is at or before the
\* offset, so its call of Seek returns at once or goes to seekForward
seekBackward(z, offset, chunk, ewd) ==
  LET z1 == seekToPoint(z, closestPointBefore(z.Index, offset)).z IN
  IF offset = z1.pos
    THEN [z |-> z1, position |-> z1.pos, err |-> "nil", point |-> Nil, n |-> 0]
  ELSE seekForward(z1, offset, chunk, ewd)

\* Reader.Seek without the case of the offset equal to the position
Reader_SeekNoEqual(z, offset, whence, chunk, ewd) ==
  IF whence \notin {"SeekStart", "SeekCurrent"}
    THEN [z |-> z, position |-> z.pos, err |-> "ErrUnimplementedSeek", point |-> Nil, n |-> 0]
  ELSE LET target == IF whence = "SeekCurrent" THEN z.pos + offset ELSE offset IN
       IF target < 0
         THEN [z |-> z, position |-> z.pos, err |-> "ErrInvalidSeek", point |-> Nil, n |-> 0]
       ELSE IF target > z.pos THEN seekForward(z, target, chunk, ewd)
       ELSE seekBackward(z, target, chunk, ewd)

\* Reader.Seek
Reader_Seek(z, offset, whence, chunk, ewd) ==
  IF whence \notin {"SeekStart", "SeekCurrent"}
    THEN [z |-> z, position |-> z.pos, err |-> "ErrUnimplementedSeek", point |-> Nil, n |-> 0]
  ELSE LET target == IF whence = "SeekCurrent" THEN z.pos + offset ELSE offset IN
       IF target < 0
         THEN [z |-> z, position |-> z.pos, err |-> "ErrInvalidSeek", point |-> Nil, n |-> 0]
       ELSE IF target = z.pos
         THEN [z |-> z, position |-> z.pos, err |-> "nil", point |-> Nil, n |-> 0]
       ELSE IF target > z.pos THEN seekForward(z, target, chunk, ewd)
       ELSE seekBackward(z, target, chunk, ewd)

\* Index.WriteTo: the gob stream of the points, each a list of (field
\* number, value) pairs in which a zero field is left out
WriteTo(idx) ==
  [j \in 1..Len(idx) |->
     SelectSeq(<<<<1, idx[j].CompressedOffset>>,
                 <<2, idx[j].UncompressedOffset>>,
                 <<3, idx[j].DecompressorState>>>>,
               LAMBDA fv : fv[2] # 0)]

\* the value of field f in an encoded point, zero when it was left out
Field(enc, f) ==
  IF \E m \in 1..Len(enc) : enc[m][1] = f
    THEN enc[CHOOSE m \in 1..Len(enc) : enc[m][1] = f][2]
    ELSE 0

\* LoadIndex
LoadIndex(data) ==
  [j \in 1..Len(data) |-> Point(Field(data[j], 1), Field(data[j], 2), Field(data[j], 3))]

RECURSIVE Copy(_, _, _)
\* io.Copy(io.Discard, reader) of generateGzipIndex: Reads until io.EOF
Copy(z, chunk, ewd) ==
  CHOOSE res \in
    {IF r.err = "nil" THEN Copy(r.z, chunk, ewd)
     ELSE [z |-> r.z, err |-> IF r.err = "EOF" THEN "nil" ELSE r.err]
       : r \in {Reader_Read(z, MaxChunk, chunk, ewd)}} : TRUE

\* generateGzipIndex: a new Reader on the source, read through
generateGzipIndex(r, chunk, ewd) == Copy(NewReader(r), chunk, ewd).z

Whences == {"SeekStart", "SeekCurrent", "SeekEnd"}

ReaderInit ==
  /\ \E r \in 1..MaxMembers :
       /\ \E chunk \in 1..MaxChunk, ewd \in BOOLEAN :
            builder = generateGzipIndex(r, chunk, ewd)
       /\ gzr = NewReader(r)
  /\ ret = [op |-> "NewReader", prev |-> "none"]
  /\ stream = <<>> /\ mapping = 0 /\ resumeOffset = 0
  /\ cp = [IndexOffset |-> 0, CompletedAt |-> FALSE] /\ file = cp
  /\ last = "zero" /\ checksums = {} /\ cancelled = FALSE
  /\ pjCh = <<>> /\ wjCh = <<>> /\ cpjCh = <<>>
  /\ errCh = <<>> /\ finCh = <<>> /\ cpControlCh = <<>>
  /\ pWg = 0 /\ wWg = 0 /\ cpWg = 0
  /\ rPc = "open" /\ zpos = 0 /\ scanStart = 0 /\ scanErr = "none" /\ rJob = Nil
  /\ pPc = [i \in Procs |-> "recv"] /\ pJob = [i \in Procs |-> Nil]
  /\ wPc = [w \in Writers |-> "start"] /\ wJob = [w \in Writers |-> Nil]
  /\ cpPc = "start" /\ lastJob = Nil /\ exitState = FALSE /\ cpFinal = "none"
  /\ runPc = "select" /\ cleanExit = FALSE /\ runRet = "none"
  /\ panicked = FALSE /\ dropped = {} /\ numPersists = 0 /\ pending = -1
  /\ phase = "down" /\ fstate = "whole" /\ now = 0 /\ lastAt = Zero /\ wroteAt = Zero
  /\ toml = Nil /\ boot = Nil /\ dst = Nil
  /\ SideIdle

\* what the Reader's actions leave alone
restVars == <<stream, mapping, resumeOffset, phase, fstate, now, lastAt, wroteAt,
              saveVars, readerVars, procVars, writerVars, ckptVars, runVars,
              wgVars, chanVars, cancelled, dropped, pending, builder, bootVars, dst,
              sideVars>>

\* runReader: reader.Index = m.cp.Index, the Index that create wrote with
\* WriteTo and load read back with LoadIndex, on the Reader NewReader returned
AssignIndex ==
  /\ ret.op = "NewReader"
  /\ gzr' = [gzr EXCEPT !.Index = LoadIndex(WriteTo(builder.Index))]
  /\ ret' = [op |-> "Index", prev |-> ret.op]
  /\ UNCHANGED restVars

\* a call of Reader.Read with a buffer of k bytes
Read_Call ==
  /\ ~gzr.panic
  /\ \E k \in 1..MaxChunk, chunk \in 0..MaxChunk, ewd \in BOOLEAN :
       \E r \in {Reader_Read(gzr, k, chunk, ewd)} :
         /\ gzr' = r.z
         /\ ret' = [op |-> "Read", prev |-> ret.op, from |-> gzr.pos,
                    n |-> r.n, data |-> r.data, err |-> r.err,
                    checked |-> gzr.checkedDigest]
  /\ UNCHANGED restVars

\* a call of Reader.Seek
Seek_Call ==
  /\ ~gzr.panic
  /\ \E offset \in -1..GzTotal, whence \in Whences,
        chunk \in 0..MaxChunk, ewd \in BOOLEAN :
       \E r \in {Reader_Seek(gzr, offset, whence, chunk, ewd)} :
         /\ gzr' = r.z
         /\ ret' = [op |-> "Seek", prev |-> ret.op, offset |-> offset,
                    whence |-> whence, position |-> r.position, err |-> r.err,
                    point |-> r.point, discarded |-> r.n]
  /\ UNCHANGED restVars

ReaderNext == AssignIndex \/ Read_Call \/ Seek_Call

ReaderSpec == ReaderInit /\ [][ReaderNext]_vars

\* the results a Read of the Reader z can return, over the buffer sizes and
\* the ways the decompressor can deliver
ReadResults(z) ==
  {Reader_Read(z, k, chunk, ewd) : k \in 1..MaxChunk, chunk \in 1..MaxChunk, ewd \in BOOLEAN}

\* C19: from every reachable state of the Reader, whether its Index was built
\* on the fly or loaded, Seek(t, SeekStart) with 0 <= t <= total succeeds and
\* leaves the position at t, and the Read that follows completes and returns
\* the bytes of the uncompressed stream that start at t, none only at its end
\* (no read of the file having failed).
C19_SeekStartThenReadFromTarget ==
  (/\ ret.op = "Seek" /\ ret.whence = "SeekStart" /\ ret.offset \in 0..GzTotal
   /\ gzr.err # "ErrIO") =>
    /\ ret.err = "nil" /\ ret.position = ret.offset /\ gzr.pos = ret.offset
    /\ \A r \in ReadResults(gzr) :
         /\ ~r.z.panic
         /\ r.data = Bytes(ret.offset, r.n)
         /\ r.n = 0 => ret.offset = GzTotal

\* the uncompressed offsets of the points of an Index
PointOffsets(idx) == {idx[j].UncompressedOffset : j \in 1..Len(idx)}

\* C20: with the Index of a full read written out, loaded and given to a new
\* Reader on the same source, a Seek to any point of the Index succeeds and
\* the Read that follows succeeds and returns the same bytes as the same Seek
\* and Read on the Reader that built the Index (no read of the file having
\* failed).
C20_LoadedIndexReadsAsOriginal ==
  (/\ ret.op = "Seek" /\ ret.prev = "Index" /\ ret.whence = "SeekStart"
   /\ ret.offset \in PointOffsets(builder.Index) /\ gzr.err # "ErrIO") =>
    /\ ret.err = "nil"
    /\ \A k \in 1..MaxChunk, chunk \in 1..MaxChunk, ewd \in BOOLEAN :
         LET mine == Reader_Read(gzr, k, chunk, ewd)
             orig == Reader_Read(
                       Reader_Seek(builder, ret.offset, "SeekStart", chunk, ewd).z,
                       k, chunk, ewd)
         IN /\ ~mine.z.panic
            /\ mine.n = orig.n /\ mine.data = orig.data /\ mine.err = orig.err

\* C21: across Reads and Seeks every byte is added to the running digest and
\* counted in size once, when furthestRead first passes it, so that until the
\* trailer is verified the digest is that of the first furthestRead bytes; the
\* trailer is verified once, by a call that takes the decompressor to the end
\* with the whole stream in the digest, and never again; no call returns
\* ErrChecksum, and a Read that reaches the end again after a Seek back
\* returns io.EOF and leaves digest, size and checkedDigest as they were.
C21_DigestOnceTrailerOnce ==
  [][gzr'.panic \/
     /\ gzr'.err # "ErrChecksum"
     /\ ret'.op \in {"Read", "Seek"} => ret'.err # "ErrChecksum"
     /\ ~gzr'.checkedDigest =>
          gzr'.digest = Bytes(0, gzr'.furthestRead) /\ gzr'.size = gzr'.furthestRead
     /\ gzr'.checkedDigest => gzr'.digest = <<>> /\ gzr'.size = 0
     /\ gzr.checkedDigest => gzr'.checkedDigest
     /\ (~gzr.checkedDigest /\ gzr'.checkedDigest) =>
          /\ gzr.digest = Bytes(0, gzr.furthestRead)
          /\ gzr'.furthestRead = GzTotal /\ gzr'.dec = GzTotal
     /\ (gzr.checkedDigest /\ ret'.op = "Read" /\ ret'.n > 0
           /\ ret'.from + ret'.n = GzTotal /\ gzr'.err = "EOF") =>
          ret'.err = "EOF"]_vars

\* a Read after a Seek back reached the end a second time: the trailer had
\* been verified before it, and it returned its bytes with io.EOF
C21_EndReachedAgain ==
  /\ ret.op = "Read" /\ ret.prev = "Seek" /\ ret.checked
  /\ ret.n > 0 /\ ret.from + ret.n = GzTotal /\ ret.err = "EOF"
  /\ gzr.checkedDigest /\ gzr.furthestRead = GzTotal

\* C22: on a source of several gzip members a Read returns io.EOF only at the
\* end of the uncompressed data of all of them, not at the trailer of the first.
C22_EOFOnlyAfterLastMember ==
  (ret.op = "Read" /\ ret.err = "EOF") => gzr.pos = gzr.r * GzTotal

\* C23: a Seek with whence SeekEnd returns ErrUnimplementedSeek; a Seek whose
\* absolute target is negative, given with SeekStart or as position + offset
\* with SeekCurrent, returns ErrInvalidSeek; a Seek to the current position
\* returns nil; each returns the current position and leaves every field of
\* the Reader, its position, Index and decompressor among them, as it was.
C23_RejectedAndEmptySeeksChangeNothing ==
  [][(ret'.op = "Seek" /\ ~gzr.panic) =>
       LET target == IF ret'.whence = "SeekCurrent"
                       THEN gzr.pos + ret'.offset ELSE ret'.offset
       IN /\ ret'.whence = "SeekEnd" =>
               /\ ret'.err = "ErrUnimplementedSeek"
               /\ ret'.position = gzr.pos /\ gzr' = gzr
          /\ (ret'.whence # "SeekEnd" /\ target < 0) =>
               /\ ret'.err = "ErrInvalidSeek"
               /\ ret'.position = gzr.pos /\ gzr' = gzr
          /\ (ret'.whence # "SeekEnd" /\ target = gzr.pos) =>
               /\ ret'.err = "nil"
               /\ ret'.position = gzr.pos /\ gzr' = gzr]_vars

\* a Seek to the current position was made on a Reader that had reached the
\* end of the stream, and returned nil
C23_SeekToCurrentAtEnd ==
  /\ ret.op = "Seek" /\ ret.whence = "SeekCurrent" /\ ret.offset = 0
  /\ ret.err = "nil" /\ ret.prev = "Read"
  /\ gzr.err = "EOF" /\ gzr.pos = GzTotal /\ gzr.past > 0

\* C24: once a read of the file has failed and the Reader holds the error,
\* every later Read, and every later Seek to another position, forward or
\* backward, returns that error, delivers no bytes and leaves the Reader
\* holding it.
C24_ErrorIsSticky ==
  [][(gzr.err = "ErrIO" /\ ~gzr.panic /\ ret'.op \in {"Read", "Seek"}) =>
       /\ ret'.op = "Read" => (ret'.err = "ErrIO" /\ ret'.n = 0 /\ gzr'.err = "ErrIO")
       /\ (/\ ret'.op = "Seek" /\ ret'.whence = "SeekStart"
           /\ ret'.offset >= 0 /\ ret'.offset # gzr.pos) =>
            (ret'.err = "ErrIO" /\ gzr'.err = "ErrIO")]_vars

\* C25: after any Reads and Seeks the points of the Index are strictly
\* ascending in UncompressedOffset and strictly ascending in CompressedOffset.
C25_IndexStrictlyAscending ==
  \A j \in 1..(Len(gzr.Index) - 1) :
    /\ gzr.Index[j].UncompressedOffset < gzr.Index[j + 1].UncompressedOffset
    /\ gzr.Index[j].CompressedOffset < gzr.Index[j + 1].CompressedOffset

\* ============================================================ CleanRunSpec
\* The pipeline when nothing outside cancels the context: every step of Spec
\* but the signal handler's; the context is then done only once shutdown has
\* cancelled it, after Run left its select.
CleanRunNext ==
  \/ Tick
  \/ runReader_Open
  \/ runReader_Scan
  \/ runReader_Send
  \/ Run_ReaderErr
  \/ Run_ReaderFin
  \/ \E i \in Procs :
       \/ runProcessor_Done(i)
       \/ runProcessor_Recv(i)
       \/ runProcessor_Send(i)
       \/ Run_ProcessorErr(i)
  \/ \E w \in Writers :
       \/ runWriter_Start(w)
       \/ runWriter_Done(w)
       \/ runWriter_Recv(w)
       \/ runWriter_Ack(w)
       \/ Run_WriterErr(w)
  \/ runCheckpointer_Start
  \/ runCheckpointer_Event
  \/ runCheckpointer_Control
  \/ Run_CheckpointerErr
  \/ Run_Fin
  \/ Run_Err
  \/ shutdown_WorkersStopped
  \/ shutdown_WorkersTimeout
  \/ shutdown_CheckpointerStopped
  \/ shutdown_CheckpointerTimeout

CleanRunSpec == Init /\ [][CleanRunNext]_vars

\* jobs the reader has sent that no writer has taken
Unwritten ==
  Range(pjCh) \cup {pJob[i] : i \in {p \in Procs : pPc[p] = "send"}} \cup Range(wjCh)

\* no stage has reported or holds an error, no read of the source has failed,
\* no record was dropped and no write of the checkpoint file has failed
NoStageError ==
  /\ errCh = <<>> /\ dropped = {} /\ cpFinal # "failed"
  /\ rPc # "errsend" /\ scanErr # "io"
  /\ \A i \in Procs : pPc[i] # "errsend"
  /\ \A w \in Writers : wPc[w] # "errsend"

\* C26: a first run over distinct, newline-terminated records that nothing
\* cancels and in which no stage fails has, when Run returns nil, read the
\* source to its end and had every record taken by a writer, and has left a
\* checkpoint file with completed_at set and index_offset at the total
\* uncompressed length of the source.
C26_CleanRunMigratesEverything ==
  (/\ runPc = "returned" /\ runRet = "nil" /\ NoStageError
   /\ stream = <<Rec(1, 2), Rec(2, 1)>> /\ resumeOffset = 0) =>
    /\ scanErr = "eof" /\ Unwritten = {}
    /\ file.CompletedAt
    /\ file.IndexOffset = Total(stream)

\* C27: a run over distinct records that ends while its reader has neither
\* reached the end of the source nor met a read error (it was interrupted,
\* and the record it last took from the source, if any, was not sent on)
\* leaves a checkpoint file from which a second run can start, so that the
\* records the first run did not write can still reach the destination.
C27_InterruptedRunCanBeResumed ==
  (~Alive /\ scanErr = "none" /\ stream = <<Rec(1, 2), Rec(2, 1)>>) =>
    load(fstate, file, TRUE).err = "nil"

\* offsets of the CheckpointJobs that writers have sent and that are still in
\* cpChan or held by the checkpointer as lastJob
AckedOffsets ==
  {j.Offset : j \in Range(cpjCh)} \cup {j.Offset : j \in {lastJob} \ {Nil}}

\* C28: every write of the checkpoint file stores as index_offset the offset
\* of a CheckpointJob that a writer had sent by then, so it is at most the
\* greatest offset acknowledged at that time and never an offset that no
\* writer has acknowledged.
C28_PersistedOffsetWasAcknowledged ==
  [][numPersists' > numPersists => file'.IndexOffset \in AckedOffsets]_vars

\* the checkpoint file has been written for an event and again at the end,
\* and holds the offset of the last CheckpointJob received
C28_EventAndFinalPersist ==
  /\ numPersists > 1 /\ cpFinal = "saved"
  /\ lastJob # Nil /\ file.IndexOffset = lastJob.Offset

\* ---------------------------------------------------------------------------
\* The start of the process: NewConfig, New and the launches of Run
\* (ConfigSpec). Durations are in milliseconds; a string is the sequence of its
\* parts, the empty string <<>>.
\* ---------------------------------------------------------------------------

DefaultBatchSize == 10
DefaultNumWorkers == 2
DefaultCheckpointInterval == 5000
DefaultCheckpointFile == <<"checkpoint.json">>
CheckpointIndexSuffix == <<".index">>
MinBatchSize == 1
MaxBatchSize == 10000
MinNumWorkers == 1
MaxNumWorkers == 100
MinCheckpointInterval == 1
MaxCheckpointInterval == 3600000

\* the counts a config file can give for a key whose valid range is lo..hi:
\* the key left out (0), a negative one, the ends of the range, one past it
Counts(lo, hi) == {-1, 0, lo, hi, hi + 1}

\* the [config] section as toml.Unmarshal leaves it; rest tells whether the
\* [source], [destination] and [mapping] sections pass their validators
TOMLConfigs ==
  [BatchSize : {0, MinBatchSize, MaxBatchSize + 1},
   NumProcessors : Counts(MinNumWorkers, MaxNumWorkers),
   NumWriters : Counts(MinNumWorkers, MaxNumWorkers),
   CheckpointInterval : {0, MinCheckpointInterval, MaxCheckpointInterval + 1},
   CheckpointFile : {<<>>, <<"cp.json">>},
   CheckpointIndex : {<<>>, <<"cp.idx">>},
   rest : BOOLEAN]

\* setTOMLDefaults, the [config] section
setTOMLDefaults(t) ==
  LET f == IF t.CheckpointFile = <<>> THEN DefaultCheckpointFile ELSE t.CheckpointFile
  IN [t EXCEPT
        !.BatchSize = IF @ = 0 THEN DefaultBatchSize ELSE @,
        !.NumProcessors = IF @ = 0 THEN DefaultNumWorkers ELSE @,
        !.CheckpointInterval = IF @ = 0 THEN DefaultCheckpointInterval ELSE @,
        !.CheckpointFile = f,
        !.CheckpointIndex = IF @ = <<>> THEN f \o CheckpointIndexSuffix ELSE @]

\* validateTOMLConfig: "nil" or the error
validateTOMLConfig(c) ==
  IF c.BatchSize < MinBatchSize \/ c.BatchSize > MaxBatchSize THEN "batch_size"
  ELSE IF c.NumProcessors < MinNumWorkers \/ c.NumProcessors > MaxNumWorkers
    THEN "num_workers"
  ELSE IF c.CheckpointInterval < MinCheckpointInterval
          \/ c.CheckpointInterval > MaxCheckpointInterval THEN "checkpoint_interval"
  ELSE IF c.CheckpointFile = <<>> THEN "checkpoint_file"
  ELSE IF c.CheckpointIndex = <<>> THEN "checkpoint_index"
  ELSE "nil"

\* validateTOML: [config] first, then the other sections
validateTOML(t) ==
  IF validateTOMLConfig(t) # "nil" THEN validateTOMLConfig(t)
  ELSE IF ~t.rest THEN "section"
  ELSE "nil"

\* config.Validate as New calls it; validateDestinationMappings of the config
\* package returns nil
Validate(t) == validateTOML(t)

\* main has read the CLI arguments and toml.Unmarshal has decoded the file
ConfigInit ==
  /\ toml \in TOMLConfigs
  /\ boot = [pc |-> "parsed", err |-> "nil", processors |-> 0, writers |-> 0]
  /\ dst = Nil
  /\ builder = Nil /\ gzr = Nil /\ ret = Nil
  /\ SideIdle
  /\ stream = <<>> /\ mapping = 0 /\ resumeOffset = 0
  /\ cp = [IndexOffset |-> 0, CompletedAt |-> FALSE] /\ file = cp
  /\ last = "zero" /\ checksums = {} /\ cancelled = FALSE
  /\ pjCh = <<>> /\ wjCh = <<>> /\ cpjCh = <<>>
  /\ errCh = <<>> /\ finCh = <<>> /\ cpControlCh = <<>>
  /\ pWg = 0 /\ wWg = 0 /\ cpWg = 0
  /\ rPc = "open" /\ zpos = 0 /\ scanStart = 0 /\ scanErr = "none" /\ rJob = Nil
  /\ pPc = [i \in Procs |-> "recv"] /\ pJob = [i \in Procs |-> Nil]
  /\ wPc = [w \in Writers |-> "start"] /\ wJob = [w \in Writers |-> Nil]
  /\ cpPc = "start" /\ lastJob = Nil /\ exitState = FALSE /\ cpFinal = "none"
  /\ runPc = "select" /\ cleanExit = FALSE /\ runRet = "none"
  /\ panicked = FALSE /\ dropped = {} /\ numPersists = 0 /\ pending = -1
  /\ phase = "down" /\ fstate = "whole" /\ now = 0 /\ lastAt = Zero /\ wroteAt = Zero

\* what the start of the process leaves alone
runStateVars == <<stream, mapping, resumeOffset, phase, fstate, now, lastAt, wroteAt,
                  saveVars, readerVars, procVars, writerVars, ckptVars, runVars,
                  wgVars, chanVars, cancelled, dropped, pending, gzVars, dst,
                  sideVars>>

\* readTOML after Unmarshal: setTOMLDefaults, then validateTOML
readTOML ==
  /\ boot.pc = "parsed"
  /\ toml' = setTOMLDefaults(toml)
  /\ boot' = [boot EXCEPT !.err = validateTOML(toml'),
                          !.pc = IF validateTOML(toml') = "nil" THEN "read" ELSE "exit"]
  /\ UNCHANGED runStateVars

\* NewConfig after readTOML: validateTOML once more
NewConfig ==
  /\ boot.pc = "read"
  /\ boot' = [boot EXCEPT !.err = validateTOML(toml),
                          !.pc = IF validateTOML(toml) = "nil" THEN "config" ELSE "exit"]
  /\ UNCHANGED <<toml, runStateVars>>

\* migrator.New: config.Validate (the checkpoint is loaded separately)
New_Validate ==
  /\ boot.pc = "config"
  /\ boot' = [boot EXCEPT !.err = Validate(toml),
                          !.pc = IF Validate(toml) = "nil" THEN "migrator" ELSE "exit"]
  /\ UNCHANGED <<toml, runStateVars>>

\* Run up to its select: make of a channel panics on a negative size; one
\* goroutine per processor and per writer
Run_Launch ==
  /\ boot.pc = "migrator"
  /\ boot' = IF toml.NumProcessors < 0 \/ toml.NumWriters < 0
               THEN [boot EXCEPT !.pc = "panic"]
               ELSE [boot EXCEPT !.pc = "running",
                                 !.processors = toml.NumProcessors,
                                 !.writers = toml.NumWriters]
  /\ UNCHANGED <<toml, runStateVars>>

ConfigNext == readTOML \/ NewConfig \/ New_Validate \/ Run_Launch

ConfigSpec == ConfigInit /\ [][ConfigNext]_vars

\* C29: a num_writers that is unset or out of MinNumWorkers..MaxNumWorkers has
\* been defaulted or rejected before Run, so Run never starts with zero
\* writers: when Run has launched its goroutines there is at least one writer.
C29_RunStartsWithAWriter ==
  boot.pc = "running" => boot.writers >= 1

\* ---------------------------------------------------------------------------
\* runWriter against a destination (WriterSpec): the writers Run has launched,
\* WriterJobs waiting in wjCh, and a destination that does not change.
\* ---------------------------------------------------------------------------

\* connects: the destination accepts connections; tables: every table the
\* mapping names exists; columns: every column the mapping names exists with a
\* type its conversion accepts
Destinations == [connects : BOOLEAN, tables : BOOLEAN, columns : BOOLEAN]

\* the WriterJobs the processors have queued when the writers start
QueuedJobs ==
  {<<>>} \cup {<<[Offset |-> a]>> : a \in 1..MaxOffset}
         \cup {<<[Offset |-> a], [Offset |-> b]>> : a, b \in 1..MaxOffset}

WriterInit ==
  /\ mapping \in {0, 1}
  /\ dst \in Destinations
  /\ wjCh \in {q \in QueuedJobs : Len(q) <= NumWriters}
  /\ stream = <<>> /\ resumeOffset = 0
  /\ cp = [IndexOffset |-> 0, CompletedAt |-> FALSE] /\ file = cp
  /\ last = "zero" /\ checksums = {} /\ cancelled = FALSE
  /\ pjCh = <<>> /\ cpjCh = <<>>
  /\ errCh = <<>> /\ finCh = <<>> /\ cpControlCh = <<>>
  /\ pWg = NumProcessors /\ wWg = NumWriters /\ cpWg = 0
  /\ rPc = "open" /\ zpos = 0 /\ scanStart = 0 /\ scanErr = "none" /\ rJob = Nil
  /\ pPc = [i \in Procs |-> "recv"] /\ pJob = [i \in Procs |-> Nil]
  /\ wPc = [w \in Writers |-> "start"] /\ wJob = [w \in Writers |-> Nil]
  /\ cpPc = "start" /\ lastJob = Nil /\ exitState = FALSE /\ cpFinal = "none"
  /\ runPc = "select" /\ cleanExit = FALSE /\ runRet = "none"
  /\ panicked = FALSE /\ dropped = {} /\ numPersists = 0 /\ pending = -1
  /\ phase = "down" /\ fstate = "whole" /\ now = 0 /\ lastAt = Zero /\ wroteAt = Zero
  /\ builder = Nil /\ gzr = Nil /\ ret = Nil
  /\ SideIdle
  /\ toml = Nil /\ boot = Nil

\* createPGPool, then validateDestinationMappings, with the answers of dst:
\* checkTableExists reads dst.tables; what checkColumn returns does not depend
\* on the data_type the destination reports
runWriter_StartAt(w) ==
  /\ Alive /\ wPc[w] = "start"
  /\ wPc' = [wPc EXCEPT ![w] =
               IF createPGPool(dst.connects) /\ validateDestinationMappings(dst.tables)
                 THEN "recv" ELSE "errsend"]
  /\ UNCHANGED wJob
  /\ UNCHANGED <<cfgVars, saveVars, readerVars, procVars, ckptVars,
                 runVars, wgVars, chanVars, cancelled, dropped, pending>>

WriterNext ==
  \/ Cancel
  \/ \E w \in Writers :
       \/ runWriter_StartAt(w)
       \/ runWriter_Recv(w)
       \/ runWriter_Ack(w)

WriterSpec == WriterInit /\ [][WriterNext]_vars

\* C30: a writer that connected validates the destination before it takes any
\* WriterJob. It returns an error, having taken no job, exactly when the
\* mapping names a table that is missing or a column whose type is
\* incompatible; when every mapped table and column is there with a
\* compatible type it goes on to receive jobs.
C30_ValidationFailsExactlyOnMismatch ==
  \A w \in Writers :
    (dst.connects /\ ~cancelled /\ wPc[w] # "start") =>
      /\ wPc[w] = "errsend" <=> (mapping > 0 /\ ~(dst.tables /\ dst.columns))
      /\ wPc[w] = "errsend" => wJob[w] = Nil

\* ---------------------------------------------------------------------------
\* A run whose config file sets disable_checkpointing (NoCheckpointSpec): the
\* state when Run reaches its select, as in Init, with the flag in toml. No
\* function of the repository reads TOMLConfig.DisableCheckpointing, so the
\* steps of the run are those of Next.
\* ---------------------------------------------------------------------------
NoCheckpointInit ==
  /\ toml = [DisableCheckpointing |-> TRUE]
  /\ stream \in Sources
  /\ mapping \in {0, 1}
  /\ resumeOffset \in ResumeOffsets(stream)
  /\ cp = [IndexOffset |-> resumeOffset, CompletedAt |-> FALSE] /\ file = cp
  /\ last = "zero" /\ checksums = {} /\ cancelled = FALSE
  /\ pjCh = <<>> /\ wjCh = <<>> /\ cpjCh = <<>>
  /\ errCh = <<>> /\ finCh = <<>> /\ cpControlCh = <<>>
  /\ pWg = NumProcessors /\ wWg = NumWriters /\ cpWg = 0
  /\ rPc = "open" /\ zpos = 0 /\ scanStart = 0 /\ scanErr = "none" /\ rJob = Nil
  /\ pPc = [i \in Procs |-> "recv"] /\ pJob = [i \in Procs |-> Nil]
  /\ wPc = [w \in Writers |-> "start"] /\ wJob = [w \in Writers |-> Nil]
  /\ cpPc = "start" /\ lastJob = Nil /\ exitState = FALSE /\ cpFinal = "none"
  /\ runPc = "select" /\ cleanExit = FALSE /\ runRet = "none"
  /\ panicked = FALSE /\ dropped = {} /\ numPersists = 0 /\ pending = -1
  /\ phase = "running" /\ fstate = "whole" /\ now = 0 /\ lastAt = Zero /\ wroteAt = Zero
  /\ builder = Nil /\ gzr = Nil /\ ret = Nil
  /\ SideIdle
  /\ boot = Nil /\ dst = Nil

NoCheckpointSpec == NoCheckpointInit /\ [][Next]_vars

\* C31: with disable_checkpointing set the run never writes the checkpoint
\* file: neither a CheckpointJob nor the value on cpControlCh causes a
\* persist, so the file stays as New loaded it.
C31_DisabledNeverPersists ==
  toml.DisableCheckpointing =>
    /\ numPersists = 0
    /\ file = [IndexOffset |-> resumeOffset, CompletedAt |-> FALSE]

\* the target of a Seek(offset, whence) made at position pos
SeekTarget(pos, offset, whence) == IF whence = "SeekCurrent" THEN pos + offset ELSE offset

\* the point of idx with the greatest uncompressed offset that is at most t,
\* the zero Point when there is none
GreatestPointUpTo(idx, t) ==
  LET upTo == {j \in 1..Len(idx) : idx[j].UncompressedOffset <= t} IN
  IF upTo = {} THEN Point(0, 0, 0)
  ELSE idx[CHOOSE j \in upTo : \A m \in upTo :
             idx[m].UncompressedOffset <= idx[j].UncompressedOffset]

DedupProcs == 3
MaxData == 2
MaxCalls == 4

\* the pipeline of Run, at rest: what the specifications of single parts pin
PipelineIdle ==
  /\ stream = <<>> /\ mapping = 0 /\ resumeOffset = 0
  /\ cp = [IndexOffset |-> 0, CompletedAt |-> FALSE] /\ file = cp
  /\ last = "zero" /\ checksums = {} /\ cancelled = FALSE
  /\ pjCh = <<>> /\ wjCh = <<>> /\ cpjCh = <<>>
  /\ errCh = <<>> /\ finCh = <<>> /\ cpControlCh = <<>>
  /\ pWg = 0 /\ wWg = 0 /\ cpWg = 0
  /\ rPc = "open" /\ zpos = 0 /\ scanStart = 0 /\ scanErr = "none" /\ rJob = Nil
  /\ pPc = [i \in Procs |-> "recv"] /\ pJob = [i \in Procs |-> Nil]
  /\ wPc = [w \in Writers |-> "start"] /\ wJob = [w \in Writers |-> Nil]
  /\ cpPc = "start" /\ lastJob = Nil /\ exitState = FALSE /\ cpFinal = "none"
  /\ runPc = "select" /\ cleanExit = FALSE /\ runRet = "none"
  /\ panicked = FALSE /\ dropped = {} /\ numPersists = 0 /\ pending = -1
  /\ phase = "down" /\ fstate = "whole" /\ now = 0 /\ lastAt = Zero /\ wroteAt = Zero

\* the variables of the other specifications of single parts
OthersIdle ==
  /\ builder = Nil /\ gzr = Nil /\ ret = Nil
  /\ toml = Nil /\ boot = Nil /\ dst = Nil

\* New: checksums is an empty map and checksumsMu an unlocked mutex
DedupInit ==
  /\ checksumsMu = 0
  /\ frames = [i \in 1..DedupProcs |-> [pc |-> "idle", Data |-> 0, found |-> FALSE]]
  /\ outcomes = [calls |-> 0, jobs |-> [d \in 1..MaxData |-> 0],
                 errors |-> [d \in 1..MaxData |-> 0]]
  /\ disk = Nil /\ loader = Nil
  /\ PipelineIdle /\ OthersIdle

\* what processJob leaves alone
notDedupVars == <<stream, mapping, resumeOffset, phase, fstate, now, lastAt, wroteAt,
                  gzVars, bootVars, dst, createVars, saveVars, readerVars, pPc, pJob,
                  writerVars, ckptVars, runVars, wgVars, chanVars, cancelled,
                  dropped, pending>>

\* a mutex that excludes nobody
MutexAlwaysFree(mu) == TRUE

\* sync.Mutex.Lock returns only when no goroutine holds the mutex
MutexFree(mu) == mu = 0

\* runProcessor has received a job and calls processJob; the checksum is
\* computed before the lock is asked for
processJob_Call(i) ==
  /\ frames[i].pc = "idle" /\ outcomes.calls < MaxCalls
  /\ \E d \in 1..MaxData :
       frames' = [frames EXCEPT ![i] = [pc |-> "lock", Data |-> d, found |-> FALSE]]
  /\ outcomes' = [outcomes EXCEPT !.calls = @ + 1]
  /\ UNCHANGED <<checksumsMu, checksums, notDedupVars>>

\* m.checksumsMu.Lock()
processJob_Lock(i) ==
  /\ frames[i].pc = "lock" /\ MutexFree(checksumsMu)
  /\ checksumsMu' = i
  /\ frames' = [frames EXCEPT ![i].pc = "check"]
  /\ UNCHANGED <<outcomes, checksums, notDedupVars>>

\* _, ok := m.checksums[checksum]
processJob_Check(i) ==
  /\ frames[i].pc = "check"
  /\ frames' = [frames EXCEPT ![i].found = Checksum(frames[i].Data) \in checksums,
                              ![i].pc = IF Checksum(frames[i].Data) \in checksums
                                          THEN "return" ELSE "insert"]
  /\ UNCHANGED <<checksumsMu, outcomes, checksums, notDedupVars>>

\* m.checksums[checksum] = struct{}{}
processJob_Insert(i) ==
  /\ frames[i].pc = "insert"
  /\ checksums' = checksums \cup {Checksum(frames[i].Data)}
  /\ frames' = [frames EXCEPT ![i].pc = "return"]
  /\ UNCHANGED <<checksumsMu, outcomes, notDedupVars>>

\* return of the error or of the WriterJob; the deferred Unlock runs
processJob_Return(i) ==
  /\ frames[i].pc = "return"
  /\ checksumsMu' = 0
  /\ outcomes' = IF frames[i].found
                   THEN [outcomes EXCEPT !.errors[frames[i].Data] = @ + 1]
                   ELSE [outcomes EXCEPT !.jobs[frames[i].Data] = @ + 1]
  /\ frames' = [frames EXCEPT ![i].pc = "idle"]
  /\ UNCHANGED <<checksums, notDedupVars>>

DedupNext ==
  \E i \in 1..DedupProcs :
    \/ processJob_Call(i)
    \/ processJob_Lock(i)
    \/ processJob_Check(i)
    \/ processJob_Insert(i)
    \/ processJob_Return(i)

DedupSpec == DedupInit /\ [][DedupNext]_vars

\* the calls for data d that have found the checksum absent: those past the
\* lookup and not returned yet, and those that have returned a WriterJob
Proceeding(d) ==
  Cardinality({i \in 1..DedupProcs :
                 /\ frames[i].Data = d /\ ~frames[i].found
                 /\ frames[i].pc \in {"insert", "return"}}) + outcomes.jobs[d]

\* C33: the lookup and the insert of processJob are one critical section: at
\* most one processor is between Lock and Unlock, and of the calls made with
\* the same record data exactly one finds the checksum absent and proceeds;
\* every other one finds it present and returns the error.
C33_CheckAndInsertAreOneSection ==
  /\ Cardinality({i \in 1..DedupProcs :
                    frames[i].pc \in {"check", "insert", "return"}}) <= 1
  /\ \A d \in 1..MaxData :
       /\ Proceeding(d) <= 1
       /\ Checksum(d) \in checksums <=>
            (Proceeding(d) = 1 /\ \A i \in 1..DedupProcs :
                                    frames[i].Data = d => frames[i].pc # "insert")
       /\ outcomes.errors[d] > 0 => outcomes.jobs[d] = 1

\* three processors were given the same data at once: one has returned a
\* WriterJob, one holds the mutex and has found the checksum present, and one
\* waits for the mutex
C33_ThreeCallsSameData ==
  /\ outcomes.jobs[1] = 1
  /\ \E i, j \in 1..DedupProcs :
       /\ frames[i].pc = "return" /\ frames[i].found /\ frames[i].Data = 1
       /\ frames[j].pc = "lock" /\ frames[j].Data = 1

\* the goroutines of a kind that have not exited yet
Running(pc) == Cardinality({i \in DOMAIN pc : pc[i] # "done"})

\* C34: the wait groups of Run are balanced: pWg counts the processors still
\* running and wWg the writers still running, no Done takes a counter below
\* zero, and the wait on the workers in shutdown is over only when every
\* processor and every writer has exited.
C34_WaitGroupsBalanced ==
  /\ ~panicked
  /\ pWg = Running(pPc)
  /\ wWg = Running(wPc)
  /\ runPc = "stage2" => (Running(pPc) = 0 /\ Running(wPc) = 0)

\* C35: when shutdown has returned nil, the checkpointer goroutine has
\* received the value from cpControlCh, has made its final saveCheckpoint and
\* has exited, however its cpWg.Add(1) and shutdown's cpWg.Wait() interleave.
C35_NilShutdownAfterCheckpointerExit ==
  (runPc = "returned" /\ runRet = "nil") =>
    /\ cpPc = "done"
    /\ cpControlCh = <<>>
    /\ cpFinal # "none"

\* the goroutines that are in their send on errCh
ErrSenders ==
  {<<"reader", 0>> : x \in {y \in {0} : rPc = "errsend"}}
    \cup {<<"processor", i>> : i \in {j \in Procs : pPc[j] = "errsend"}}
    \cup {<<"writer", w>> : w \in {v \in Writers : wPc[v] = "errsend"}}
    \cup {<<"checkpointer", 0>> : x \in {y \in {0} : cpPc = "errsend"}}

\* C36: no goroutine stays blocked in its send on errCh: a send finds room in
\* the channel or Run still is at the select that receives from it. Once Run
\* has left its select nothing receives from errCh again, so a send that
\* finds the channel full then never completes.
C36_ErrorSendNeverStuck ==
  ErrSenders # {} => (Len(errCh) < NumProcessors \/ runPc = "select")

\* C37: in every state of the Reader reached by Read and Seek calls, with an
\* Index built on the fly or assigned from a loaded one, the position is at
\* most furthestRead when a Read begins, so the start index of the new data
\* in Read is within 0..n and Read never slices out of bounds.
C37_PositionWithinFrontier ==
  /\ ~gzr.panic
  /\ gzr.pos <= gzr.furthestRead

\* C38: a write of the checkpoint file that fails while a CheckpointJob is
\* handled is not fatal and does not use up the interval: the checkpointer
\* stays in its loop, nothing is sent on errCh, m.last is unchanged so that
\* the next job is not skipped for it, and the checkpointer returns an error
\* only when its final saveCheckpoint fails.
C38_FailedEventPersistIsNotFatal ==
  [][/\ (/\ cpPc = "loop" /\ cpjCh # <<>> /\ cpjCh' = Tail(cpjCh)
         /\ ~Throttled(last) /\ numPersists' = numPersists) =>
          /\ cpPc' = "loop" /\ errCh' = errCh
          /\ last' = last /\ ~Throttled(last')
          /\ lastJob' = Head(cpjCh)
     /\ (cpPc # "errsend" /\ cpPc' = "errsend") =>
          /\ cpControlCh # <<>> /\ cpControlCh' = Tail(cpControlCh)
          /\ cpFinal' = "failed"]_vars

\* the write for a CheckpointJob has failed before any write succeeded: the
\* checkpoint in memory has the job's offset, the file has not, and the
\* checkpointer is in its loop with m.last still zero
C38_EventPersistFailed ==
  /\ cpPc = "loop" /\ lastJob # Nil
  /\ numPersists = 0 /\ last = "zero"
  /\ cp.IndexOffset = lastJob.Offset /\ cp # file

\* the jobs between the reader and the checkpointer: ProcessorJobs in pjCh,
\* WriterJobs a processor is about to send, WriterJobs in wjCh and WriterJobs
\* a writer has received and not acknowledged yet
NumInFlight ==
  Len(pjCh) + Cardinality({i \in Procs : pJob[i] # Nil})
    + Len(wjCh) + Cardinality({w \in Writers : wJob[w] # Nil})

MaxStarts == 4

\* the name create gives the index file, as the parts of the string
IndexSuffix == <<".index">>
CheckpointPath == <<"checkpoint.json">>

\* the document create marshals
NewDocument ==
  [IndexFile |-> CheckpointPath \o IndexSuffix, IndexOffset |-> 0, CompletedAt |-> FALSE]

\* a file on disk is absent, empty (created or truncated, nothing written),
\* partial (some of the bytes written) or whole
CreateInit ==
  /\ disk = [cp |-> "absent", idx |-> "absent", doc |-> Nil]
  /\ loader = [pc |-> "down", path |-> "none", err |-> "nil", cp |-> Nil, starts |-> 0]
  /\ checksumsMu = Nil /\ frames = Nil /\ outcomes = Nil
  /\ PipelineIdle /\ OthersIdle

notCreateVars == <<stream, mapping, resumeOffset, phase, fstate, now, lastAt, wroteAt,
                   gzVars, bootVars, dst, dedupVars, saveVars, readerVars, procVars,
                   writerVars, ckptVars, runVars, wgVars, chanVars, cancelled,
                   dropped, pending>>

\* Load returns err (and cp when err is nil)
Return(err, c) == [loader EXCEPT !.pc = "returned", !.err = err, !.cp = c]

\* the process starts and New calls Load: os.Stat(checkpointFile)
Load_Stat ==
  /\ loader.pc \in {"down", "returned"} /\ loader.starts < MaxStarts
  /\ loader' = [pc |-> IF disk.cp = "absent" THEN "generateIndex" ELSE "load",
                path |-> IF disk.cp = "absent" THEN "create" ELSE "load",
                err |-> "nil", cp |-> Nil, starts |-> loader.starts + 1]
  /\ UNCHANGED <<disk, notCreateVars>>

\* create: generateIndex reads the source through
create_GenerateIndex ==
  /\ loader.pc = "generateIndex"
  /\ \E ok \in BOOLEAN :
       loader' = IF ok THEN [loader EXCEPT !.pc = "createIndexFile"]
                 ELSE Return("unable to generate gzip index", Nil)
  /\ UNCHANGED <<disk, notCreateVars>>

\* create: os.Create(indexFilename) creates or truncates the index file
create_CreateIndexFile ==
  /\ loader.pc = "createIndexFile"
  /\ \E ok \in BOOLEAN :
       IF ok THEN /\ disk' = [disk EXCEPT !.idx = "empty"]
                  /\ loader' = [loader EXCEPT !.pc = "writeIndex"]
       ELSE /\ loader' = Return("unable to create checkpoint index file", Nil)
            /\ UNCHANGED disk
  /\ UNCHANGED notCreateVars

\* create: index.WriteTo(indexFile)
create_WriteIndex ==
  /\ loader.pc = "writeIndex"
  /\ \E ok \in BOOLEAN :
       IF ok THEN /\ disk' = [disk EXCEPT !.idx = "whole"]
                  /\ loader' = [loader EXCEPT !.pc = "writeFile"]
       ELSE /\ disk' = [disk EXCEPT !.idx = "partial"]
            /\ loader' = Return("error writing index to file", Nil)
  /\ UNCHANGED notCreateVars

\* create: os.WriteFile(checkpointFile, data, 0644) opens the file, which
\* creates it empty
create_WriteFileOpen ==
  /\ loader.pc = "writeFile"
  /\ \E ok \in BOOLEAN :
       IF ok THEN /\ disk' = [disk EXCEPT !.cp = "empty"]
                  /\ loader' = [loader EXCEPT !.pc = "writeFileData"]
       ELSE /\ loader' = Return("unable to write checkpoint file", Nil)
            /\ UNCHANGED disk
  /\ UNCHANGED notCreateVars

\* create: os.WriteFile writes the marshalled checkpoint and closes the file
create_WriteFileData ==
  /\ loader.pc = "writeFileData"
  /\ \E ok \in BOOLEAN :
       IF ok THEN /\ disk' = [disk EXCEPT !.cp = "whole", !.doc = NewDocument]
                  /\ loader' = Return("nil", NewDocument)
       ELSE /\ disk' = [disk EXCEPT !.cp = "partial"]
            /\ loader' = Return("unable to write checkpoint file", Nil)
  /\ UNCHANGED notCreateVars

\* load: os.ReadFile and json.Unmarshal, the test of CompletedAt, os.Open of
\* cp.IndexFile and gzran.LoadIndex
load_File ==
  /\ loader.pc = "load"
  /\ loader' =
       IF disk.cp # "whole" THEN Return("unable to unmarshal checkpoint file", Nil)
       ELSE IF disk.doc.CompletedAt THEN Return("migration already completed", Nil)
       ELSE IF disk.idx = "absent" THEN Return("unable to open checkpoint index file", Nil)
       ELSE IF disk.idx # "whole" THEN Return("unable to read gzip index", Nil)
       ELSE Return("nil", disk.doc)
  /\ UNCHANGED <<disk, notCreateVars>>

\* the process is killed inside Load: what is on disk stays
Load_Kill ==
  /\ loader.pc \notin {"down", "returned"}
  /\ loader' = [loader EXCEPT !.pc = "down"]
  /\ UNCHANGED <<disk, notCreateVars>>

CreateNext ==
  \/ Load_Stat
  \/ create_GenerateIndex
  \/ create_CreateIndexFile
  \/ create_WriteIndex
  \/ create_WriteFileOpen
  \/ create_WriteFileData
  \/ load_File
  \/ Load_Kill

CreateSpec == CreateInit /\ [][CreateNext]_vars

\* C40: on a first run create writes the index file before the checkpoint
\* file, and the checkpoint it returns has IndexOffset 0, no CompletedAt and
\* IndexFile equal to the checkpoint path plus ".index". So whatever step of
\* the creation failed or was interrupted, the checkpoint file is never on
\* disk without the whole index file, and a later Load either creates both
\* again or loads both.
C40_CreationLeavesLoadableState ==
  /\ disk.cp # "absent" => disk.idx = "whole"
  /\ (loader.pc = "returned" /\ loader.path = "create" /\ loader.err = "nil") =>
       /\ loader.cp = [IndexFile |-> <<"checkpoint.json", ".index">>,
                       IndexOffset |-> 0, CompletedAt |-> FALSE]
       /\ disk.cp = "whole" /\ disk.doc = loader.cp
  /\ (loader.pc = "returned" /\ loader.path = "load") =>
       (loader.err = "nil" /\ loader.cp = disk.doc)

====
